---- MODULE Spec2Model ----
(***************************************************************************)
(* Session and real-time coordination layer of pion-webrtc-microservice:   *)
(* the chat registry (chat/chat.go) with its notification hub              *)
(* (chat/notification.go), the call registry (call/call.go) with the media *)
(* recorder and the audio level detector, the signaling router             *)
(* (call/recording.go, package signaling) and the peer manager             *)
(* (peer/peer.go).                                                         *)
(*                                                                         *)
(* Every request runs in a goroutine of its own, so a facade call is a     *)
(* record req[k] with a program counter; requests start in index order     *)
(* and run concurrently.  A critical section of a registry lock (cm.mu)    *)
(* contains no blocking operation, so it is one atomic step; a session     *)
(* lock (session.mu) is a variable because it is held across steps.        *)
(* Wall-clock time is abstracted: a sleeping expiry task may wake at any   *)
(* later step.  utils.GenerateSessionID (16 random bytes) is modelled by a *)
(* fresh number.                                                           *)
(***************************************************************************)
EXTENDS Integers, Sequences, FiniteSets, TLC

\* ------------------------------------------------------------------ bounds
MaxRequests == 2
MaxSessions == 1
MaxHandles == 2
MaxBroadcasts == 2
MaxConns == 2
MaxEnvelopes == 2
MaxAuxCalls == 2
\* sessions created in the specification of the expiry tasks
MaxExpirySessions == 2
\* ProcessAudioLevel calls on the detector, and the last reading of the clock
MaxBlocks == 4
MaxClock == 6
\* StartRecording calls that succeeded, and panicking StopRecording calls, below
\* which further recording calls arrive
MaxStarts == 2
\* peer connections the PeerManager builds
MaxPeerConns == 3

\* ------------------------------------------------------------ input domains
None == "none"

Users == {"u1", "u2"}
CreatorIds == {"u1"}
ParticipantLists == {<< >>, <<"u2">>, <<"u1", "u2">>}

\* chat.go:17-24
ValidMessageTypes == {"text", "image", "file", "document", "emoji", "system"}
TypeInputs == {"text", ""}
ActionInputs == {"mute", "unmute", "remove", "kick"}
\* chat.go:29-33
RoleInputs == {"admin", "user"}
\* call.go:17-19
QualityInputs == {0, 3, 6}
CallTypeInputs == {"video", "audio"}

\* remote endpoints of notification connections; peer ids of signaling ones
Addrs == {"a1", "a2"}
PeerIds == {"p1", "p2"}

SessionIds == 1..MaxSessions
ReqIds == 1..MaxRequests
AuxIds == 1..MaxAuxCalls

\* utils.NewErrorResponse(http.Status..., ...) classes; OK is a nil error
OK == "OK"
NotFound == "NotFound"
Forbidden == "Forbidden"
BadRequest == "BadRequest"
Internal == "Internal"
Conflict == "Conflict"

Range(s) == {s[i] : i \in 1..Len(s)}

VARIABLES
    chatSessions,   \* ChatManager.sessions: the ids present in the map
    chatObj,        \* the *ChatSession objects ever built, by id
    chatExpiry,     \* per session: the auto-terminate goroutine
    disk,           \* data/sessions/<id>.json: the snapshot last written
    req,            \* the facade calls: operation, arguments, position, result
    chatTermOK,     \* history: chat ids for which TerminateSession returned nil
    amOrder,        \* history: per session, the AddMessage calls that passed
                    \* validation, in the order they acquired session.mu
    hubCmd,         \* what NotificationHub.Run received and is processing
    hubClients,     \* NotificationHub.clients: remote address -> handle
    hubClosed,      \* the handles the hub has closed
    hubLog,         \* history: what the hub loop processed, in order, with the
                    \* WriteJSON calls of each broadcast
    ws,             \* per notification handle: remote address and the position
                    \* of its handleChatNotifications request
    callSessions,   \* CallManager.sessions: the ids present in the map
    callObj,        \* the *CallSession objects ever built, by id
    callExpiry,     \* per call session: the auto-terminate goroutine
    pcs,            \* the peer connections handed to JoinCall, by id
    callTermOK,     \* history: call ids for which TerminateSession returned nil
    aux,            \* the lobby and recording calls of the call facade, as req
    sigClients,     \* SignalingServer.clients: peer id -> connection
    sig,            \* per signaling connection: peer id, position of its
                    \* HandleWebSocket, the message read and its decoding
    sigClosed,      \* the signaling connections closed
    sigLog,         \* history: the messages handled, in order of completion
    clock,          \* time.Now(), in ticks of 250 ms
    detector,       \* one AudioLevelDetector
    audioLog,       \* history: the blocks fed to the detector, the last
                    \* GetSpeakingTime result (-1 before the first call)
    peerConnections,\* PeerManager.peerConnections: peer id -> connection
    peerConns,      \* the connections NewPeerConnection has built, in order:
                    \* the peer id each was built for, whether it is closed
    peerRes         \* history: the last call on the PeerManager, its result

chatVars == <<chatSessions, chatObj, chatExpiry, disk, chatTermOK, amOrder>>
hubVars == <<hubCmd, hubClients, hubClosed, hubLog, ws>>
audioVars == <<clock, detector, audioLog>>
callVars == <<callSessions, callObj, callExpiry, pcs, callTermOK, aux, audioVars>>
sigVars == <<sigClients, sig, sigClosed, sigLog>>
peerVars == <<peerConnections, peerConns, peerRes>>
vars == <<chatVars, req, hubVars, callVars, sigVars, peerVars>>

\* ---------------------------------------------------------- request records
\* the zero value of ChatMessage (chat.go:36-47), as far as modelled
ZeroMessage ==
    [ID |-> 0, SenderID |-> "", Type |-> "", Attachments |-> << >>,
     Reactions |-> << >>]

NewReq ==
    [op |-> None, pc |-> "new", sid |-> 0, actor |-> None, who |-> None,
     arg |-> None, res |-> None, msg |-> ZeroMessage, ret |-> << >>,
     late |-> FALSE]

Started(k) == req[k].pc # "new"
Done(k) == req[k].pc = "done"
\* requests are started in index order
CanStart(k) == /\ req[k].pc = "new"
               /\ \A j \in ReqIds : j < k => Started(j)

\* the record of a request that looks the session up (cm.mu held for the lookup
\* only); late is history: the lookup began after a successful TerminateSession
Begin(k, op, sid, who, arg, found, pc, late) ==
    [req EXCEPT ![k] = [NewReq EXCEPT !.op = op, !.sid = sid, !.who = who,
                            !.arg = arg, !.late = late,
                            !.pc = IF found THEN pc ELSE "done",
                            !.res = IF found THEN None ELSE NotFound]]

Return(k, r) == [req EXCEPT ![k].pc = "done", ![k].res = r]

\* --------------------------------------------------------------- chat model
\* chat.go:50-56 (the key is the ID; JoinTime is not modelled)
Participant(role) == [Role |-> role, IsPinned |-> FALSE, IsMuted |-> FALSE]

\* chat.go:87-105 with the test pid != creatorID of line 98 left out
BuildParticipants_Overwrite(creatorID, participants) ==
    [p \in {creatorID} \cup Range(participants) |->
        IF p \in Range(participants) THEN Participant("user")
        ELSE Participant("admin")]

\* chat.go:87-105
BuildParticipants(creatorID, participants) ==
    [p \in {creatorID} \cup Range(participants) |->
        IF p = creatorID THEN Participant("admin") ELSE Participant("user")]

NextChatId == Cardinality(DOMAIN chatObj) + 1

\* chat.go:86-127
NewChatSession(creatorID, participants) ==
    /\ LET id == NextChatId IN
        /\ chatObj' = chatObj @@ (id :>
               [Participants |-> BuildParticipants(creatorID, participants),
                Messages |-> << >>, mu |-> 0])
        /\ chatSessions' = chatSessions \cup {id}
        /\ chatExpiry' = chatExpiry @@ (id :> [pc |-> "sleep", res |-> None])
        /\ amOrder' = amOrder @@ (id :> << >>)
    /\ UNCHANGED <<disk, req, chatTermOK, hubVars>>
    /\ UNCHANGED <<callVars, sigVars, peerVars>>

\* main.go:155-169 createChatSession, at most MaxSessions times
CreateChatSession(creatorID, participants) ==
    /\ NextChatId <= MaxSessions
    /\ NewChatSession(creatorID, participants)

\* cm.sessions[sessionID] under cm.mu
ChatExists(sid) == sid \in chatSessions

\* session.mu taken without waiting for its holder
ChatLockFree_Always(sid) == TRUE

\* session.mu: 0 when free, else the request holding it
ChatLockFree(sid) == chatObj[sid].mu = 0

\* chat.go:192-195 with the membership test left out
SenderIsParticipant_Unchecked(sid, senderID) == TRUE

\* chat.go:192-195
SenderIsParticipant(sid, senderID) == senderID \in DOMAIN chatObj[sid].Participants

\* chat.go:197-203
ValidType(type) == type \in ValidMessageTypes

\* chat.go:423-435: json.Marshal of the exported fields, written to the file
Snapshot(obj) == [Participants |-> obj.Participants, Messages |-> obj.Messages]

\* chat.go:215-219 and 378-385
MessageNotification(sid, message) ==
    [Type |-> "message", SessionID |-> sid, Data |-> message]
ModerationNotification(sid, participantID, action) ==
    [Type |-> "moderation", SessionID |-> sid,
     Data |-> [participantId |-> participantID, action |-> action]]

\* notification.go:71-73: the send on the unbuffered Broadcast channel completes
\* when Run's select receives it
HubIdle == hubCmd.ch = None
SendNotification(n) ==
    /\ HubIdle
    /\ hubCmd' = [ch |-> "Broadcast", n |-> n, h |-> 0]
    /\ UNCHANGED <<hubClients, hubClosed, hubLog, ws>>

\* chat.go:180-187
AddMessageBegin(k, sid, senderID, type) ==
    /\ CanStart(k)
    /\ req' = Begin(k, "chat.AddMessage", sid, senderID, type, ChatExists(sid),
                    "am_lock", sid \in chatTermOK)
    /\ UNCHANGED <<chatVars, hubVars>>
    /\ UNCHANGED <<callVars, sigVars, peerVars>>

\* chat.go:189-206: session.mu.Lock, the two checks, the fresh id
AddMessageLock(k) ==
    /\ req[k].pc = "am_lock"
    /\ ChatLockFree(req[k].sid)
    /\ LET sid == req[k].sid IN
        IF ~SenderIsParticipant(sid, req[k].who)
        THEN /\ req' = Return(k, Forbidden)
             /\ UNCHANGED chatVars
        ELSE IF ~ValidType(req[k].arg)
        THEN /\ req' = Return(k, BadRequest)
             /\ UNCHANGED chatVars
        ELSE /\ req' = [req EXCEPT ![k].pc = "am_append",
                           ![k].msg = [ZeroMessage EXCEPT !.ID = k,
                                       !.SenderID = req[k].who,
                                       !.Type = req[k].arg]]
             /\ chatObj' = [chatObj EXCEPT ![sid].mu = k]
             /\ amOrder' = [amOrder EXCEPT ![sid] = Append(@, k)]
             /\ UNCHANGED <<chatSessions, chatExpiry, disk, chatTermOK>>
    /\ UNCHANGED hubVars
    /\ UNCHANGED <<callVars, sigVars, peerVars>>

\* chat.go:210-212 with the appended message taken back
SaveFailed_RolledBack(obj) ==
    [obj EXCEPT !.mu = 0, !.Messages = SubSeq(@, 1, Len(@) - 1)]

\* chat.go:210-212 with the deferred Unlock of line 190 left out
SaveFailed_Locked(obj) == obj

\* chat.go:210-212: the session when SaveSession has failed: the error is
\* returned, the deferred Unlock runs
SaveFailed(obj) == [obj EXCEPT !.mu = 0]

\* chat.go:207-212: the append, then SaveSession, which may fail
AddMessageAppend(k) ==
    /\ req[k].pc = "am_append"
    /\ LET sid == req[k].sid
           obj == [chatObj[sid] EXCEPT !.Messages = Append(@, req[k].msg)]
       IN \E saved \in BOOLEAN :
            IF saved
            THEN /\ chatObj' = [chatObj EXCEPT ![sid] = obj]
                 /\ disk' = (sid :> Snapshot(obj)) @@ disk
                 /\ req' = [req EXCEPT ![k].pc = "am_notify"]
            ELSE /\ chatObj' = [chatObj EXCEPT ![sid] = SaveFailed(obj)]
                 /\ disk' = disk
                 /\ req' = Return(k, Internal)
    /\ UNCHANGED <<chatSessions, chatExpiry, chatTermOK, amOrder, hubVars>>
    /\ UNCHANGED <<callVars, sigVars, peerVars>>

\* chat.go:214-221: the notification, then the deferred session.mu.Unlock
AddMessageNotify(k) ==
    /\ req[k].pc = "am_notify"
    /\ SendNotification(MessageNotification(req[k].sid, req[k].msg))
    /\ chatObj' = [chatObj EXCEPT ![req[k].sid].mu = 0]
    /\ req' = Return(k, OK)
    /\ UNCHANGED <<chatSessions, chatExpiry, disk, chatTermOK, amOrder>>
    /\ UNCHANGED <<callVars, sigVars, peerVars>>

\* chat.go:233 reads session.Messages holding cm.mu but not session.mu.  While an
\* AddMessage is executing the append of line 207 the read races with the write
\* of the slice: it may see the old slice, the new one, or the new length over
\* an element that is not written yet.
Appending(sid) == {k \in ReqIds : req[k].pc = "am_append" /\ req[k].sid = sid}
ReadMessages(sid) ==
    {chatObj[sid].Messages}
    \cup UNION {{Append(chatObj[sid].Messages, req[k].msg),
                 Append(chatObj[sid].Messages, ZeroMessage)} : k \in Appending(sid)}

\* chat.go:224-234
GetChatMessages(k, sid) ==
    /\ CanStart(k)
    /\ IF ~ChatExists(sid)
       THEN req' = Begin(k, "chat.GetChatMessages", sid, None, None, FALSE, "done",
                         sid \in chatTermOK)
       ELSE \E r \in ReadMessages(sid) :
              req' = [req EXCEPT ![k] = [NewReq EXCEPT !.op = "chat.GetChatMessages",
                         !.sid = sid, !.pc = "done", !.res = OK, !.ret = r,
                         !.late = sid \in chatTermOK]]
    /\ UNCHANGED <<chatVars, hubVars>>
    /\ UNCHANGED <<callVars, sigVars, peerVars>>

\* chat.go:266-277, all of it under cm.mu
TerminateResult(sid) == IF ChatExists(sid) THEN OK ELSE NotFound
\* the delete of chat.go:274 left out
TerminateDelete_Keep(sid) == chatSessions
\* chat.go:274 with every key deleted in place of sessionID
TerminateDelete_All(sid) == {}
TerminateDelete(sid) == chatSessions \ {sid}

ChatTerminate(k, sid) ==
    /\ CanStart(k)
    /\ req' = [req EXCEPT ![k] = [NewReq EXCEPT !.op = "chat.TerminateSession",
                  !.sid = sid, !.pc = "done", !.res = TerminateResult(sid),
                  !.late = sid \in chatTermOK]]
    /\ chatSessions' = TerminateDelete(sid)
    /\ chatTermOK' = IF TerminateResult(sid) = OK THEN chatTermOK \cup {sid}
                     ELSE chatTermOK
    /\ UNCHANGED <<chatObj, chatExpiry, disk, amOrder, hubVars>>
    /\ UNCHANGED <<callVars, sigVars, peerVars>>

\* chat.go:120-124: the goroutine wakes after the duration and terminates the
\* session; the result is dropped
ChatExpire(sid) ==
    /\ sid \in DOMAIN chatExpiry
    /\ chatExpiry[sid].pc = "sleep"
    /\ chatExpiry' = [chatExpiry EXCEPT ![sid] =
                          [pc |-> "done", res |-> TerminateResult(sid)]]
    /\ chatSessions' = TerminateDelete(sid)
    /\ chatTermOK' = IF TerminateResult(sid) = OK THEN chatTermOK \cup {sid}
                     ELSE chatTermOK
    /\ UNCHANGED <<chatObj, disk, amOrder, req, hubVars>>
    /\ UNCHANGED <<callVars, sigVars, peerVars>>

\* chat.go:344-351
ModerateBegin(k, sid, participantID, action) ==
    /\ CanStart(k)
    /\ req' = Begin(k, "chat.ModerateParticipant", sid, participantID, action,
                    ChatExists(sid), "mp_lock", sid \in chatTermOK)
    /\ UNCHANGED <<chatVars, hubVars>>
    /\ UNCHANGED <<callVars, sigVars, peerVars>>

\* chat.go:361-370 with the default case left out
ValidAction_Any(action) == TRUE

\* chat.go:361-370: the switch on the action
ValidAction(action) == action \in {"mute", "unmute", "remove"}
\* the delete of chat.go:367 left out
Moderated_NoRemove(parts, participantID, action) ==
    CASE action = "mute" -> [parts EXCEPT ![participantID].IsMuted = TRUE]
      [] action = "unmute" -> [parts EXCEPT ![participantID].IsMuted = FALSE]
      [] OTHER -> parts

Moderated(parts, participantID, action) ==
    CASE action = "mute" -> [parts EXCEPT ![participantID].IsMuted = TRUE]
      [] action = "unmute" -> [parts EXCEPT ![participantID].IsMuted = FALSE]
      [] action = "remove" -> [p \in DOMAIN parts \ {participantID} |-> parts[p]]
      [] OTHER -> parts

\* chat.go:353-375: session.mu.Lock, the lookup, the action, SaveSession
ModerateLock(k) ==
    /\ req[k].pc = "mp_lock"
    /\ ChatLockFree(req[k].sid)
    /\ LET sid == req[k].sid
           obj == [chatObj[sid] EXCEPT
                      !.Participants = Moderated(@, req[k].who, req[k].arg)]
       IN IF req[k].who \notin DOMAIN chatObj[sid].Participants
          THEN /\ req' = Return(k, NotFound)
               /\ UNCHANGED <<chatObj, disk>>
          ELSE IF ~ValidAction(req[k].arg)
          THEN /\ req' = Return(k, BadRequest)
               /\ UNCHANGED <<chatObj, disk>>
          ELSE \E saved \in BOOLEAN :
                 IF saved
                 THEN /\ chatObj' = [chatObj EXCEPT ![sid] = [obj EXCEPT !.mu = k]]
                      /\ disk' = (sid :> Snapshot(obj)) @@ disk
                      /\ req' = [req EXCEPT ![k].pc = "mp_notify"]
                 ELSE /\ chatObj' = [chatObj EXCEPT ![sid] = obj]
                      /\ disk' = disk
                      /\ req' = Return(k, Internal)
    /\ UNCHANGED <<chatSessions, chatExpiry, chatTermOK, amOrder, hubVars>>
    /\ UNCHANGED <<callVars, sigVars, peerVars>>

\* chat.go:377-387: the notification, then the deferred session.mu.Unlock
ModerateNotify(k) ==
    /\ req[k].pc = "mp_notify"
    /\ SendNotification(ModerationNotification(req[k].sid, req[k].who, req[k].arg))
    /\ chatObj' = [chatObj EXCEPT ![req[k].sid].mu = 0]
    /\ req' = Return(k, OK)
    /\ UNCHANGED <<chatSessions, chatExpiry, disk, chatTermOK, amOrder>>
    /\ UNCHANGED <<callVars, sigVars, peerVars>>

\* chat.go:130-137; actor is the adminID argument
ModifyRoleBegin(k, sid, adminID, participantID, newRole) ==
    /\ CanStart(k)
    /\ req' = [Begin(k, "chat.ModifyParticipantRole", sid, participantID, newRole,
                     ChatExists(sid), "mr_lock", sid \in chatTermOK)
                  EXCEPT ![k].actor = adminID]
    /\ UNCHANGED <<chatVars, hubVars>>
    /\ UNCHANGED <<callVars, sigVars, peerVars>>

\* chat.go:143-146 with the test of the role left out
IsAdmin_Member(parts, adminID) == adminID \in DOMAIN parts

\* chat.go:143-146
IsAdmin(parts, adminID) == adminID \in DOMAIN parts /\ parts[adminID].Role = "admin"

\* chat.go:139-154 under session.mu
ModifyRoleLock(k) ==
    /\ req[k].pc = "mr_lock"
    /\ ChatLockFree(req[k].sid)
    /\ LET sid == req[k].sid
           parts == chatObj[sid].Participants
       IN IF ~IsAdmin(parts, req[k].actor)
          THEN req' = Return(k, Forbidden) /\ chatObj' = chatObj
          ELSE IF req[k].who \notin DOMAIN parts
          THEN req' = Return(k, NotFound) /\ chatObj' = chatObj
          ELSE /\ req' = Return(k, OK)
               /\ chatObj' = [chatObj EXCEPT
                      ![sid].Participants[req[k].who].Role = req[k].arg]
    /\ UNCHANGED <<chatSessions, chatExpiry, disk, chatTermOK, amOrder, hubVars>>
    /\ UNCHANGED <<callVars, sigVars, peerVars>>

\* chat.go:158-165 (ToggleParticipantPin) and 323-330 (PinParticipant); actor is
\* the user who makes the request, which neither function is given
TogglePinBegin(k, op, sid, actor, participantID) ==
    /\ CanStart(k)
    /\ req' = [Begin(k, op, sid, participantID, None, ChatExists(sid), "tp_lock",
                     sid \in chatTermOK)
                  EXCEPT ![k].actor = actor]
    /\ UNCHANGED <<chatVars, hubVars>>
    /\ UNCHANGED <<callVars, sigVars, peerVars>>

\* chat.go:167-176 and 332-341 under session.mu
TogglePinLock(k) ==
    /\ req[k].pc = "tp_lock"
    /\ ChatLockFree(req[k].sid)
    /\ LET sid == req[k].sid IN
       IF req[k].who \notin DOMAIN chatObj[sid].Participants
       THEN req' = Return(k, NotFound) /\ chatObj' = chatObj
       ELSE /\ req' = Return(k, OK)
            /\ chatObj' = [chatObj EXCEPT
                   ![sid].Participants[req[k].who].IsPinned = ~@]
    /\ UNCHANGED <<chatSessions, chatExpiry, disk, chatTermOK, amOrder, hubVars>>
    /\ UNCHANGED <<callVars, sigVars, peerVars>>

\* ------------------------------------------------------- notification hub
\* notification.go:41-69 receives one value at a time; NoCmd: blocked in select
NoCmd == [ch |-> None, n |-> None, h |-> 0]

\* client.RemoteAddr().String(), the key of NotificationHub.clients
RemoteAddr(h) == ws[h].addr

Registered == {hubClients[a] : a \in DOMAIN hubClients}

\* delete(h.clients, a)
Without(clients, a) == [b \in DOMAIN clients \ {a} |-> clients[b]]

\* what the loop appends to its history for a value it processed
Processed(ch, h, n, writes) == [ch |-> ch, h |-> h, n |-> n, writes |-> writes]

\* notification.go:44-47 with an entry already present kept
Registering_KeepFirst(clients, h) == clients @@ (RemoteAddr(h) :> h)

\* notification.go:44-47
Registering(clients, h) == (RemoteAddr(h) :> h) @@ clients

HubRegister(h) ==
    /\ hubClients' = Registering(hubClients, h)
    /\ hubClosed' = hubClosed
    /\ hubLog' = Append(hubLog, Processed("Register", h, None, << >>))

\* notification.go:49-55: the test is on the key, whatever handle it maps to;
\* the handle closed is the one received
HubUnregister(h) ==
    /\ IF RemoteAddr(h) \in DOMAIN hubClients
       THEN /\ hubClients' = Without(hubClients, RemoteAddr(h))
            /\ hubClosed' = hubClosed \cup {h}
       ELSE UNCHANGED <<hubClients, hubClosed>>
    /\ hubLog' = Append(hubLog, Processed("Unregister", h, None, << >>))

\* the delete of notification.go:62 left out
WriteFailed_KeepEntry(st, a) == [st EXCEPT !.closed = @ \cup {st.clients[a]}]

\* notification.go:60-63: the handle whose write failed is closed and deleted
WriteFailed(st, a) ==
    [st EXCEPT !.closed = @ \cup {st.clients[a]}, !.clients = Without(@, a)]

\* notification.go:58-64: the range over h.clients, one WriteJSON per entry;
\* keys are the entries not visited yet, failing those whose write returns an
\* error, st the map, the closed handles and the writes made so far
RECURSIVE BroadcastLoop(_, _, _)
BroadcastLoop(keys, failing, st) ==
    IF keys = {} THEN st
    ELSE LET a == CHOOSE x \in keys : TRUE
             err == a \in failing
             wrote == [st EXCEPT !.writes =
                          Append(@, [to |-> st.clients[a], ok |-> ~err])]
         IN BroadcastLoop(keys \ {a}, failing,
                          IF err THEN WriteFailed(wrote, a) ELSE wrote)

\* notification.go:57-66: a write to a closed handle fails, a write to an open
\* one may fail
HubBroadcast(n) ==
    \E failing \in SUBSET DOMAIN hubClients :
        /\ {a \in DOMAIN hubClients : hubClients[a] \in hubClosed} \subseteq failing
        /\ LET st == BroadcastLoop(DOMAIN hubClients, failing,
                         [clients |-> hubClients, closed |-> hubClosed,
                          writes |-> << >>])
           IN /\ hubClients' = st.clients
              /\ hubClosed' = st.closed
              /\ hubLog' = Append(hubLog, Processed("Broadcast", 0, n, st.writes))

\* notification.go:41-69: one iteration of the loop, for the value received
HubRun ==
    /\ ~HubIdle
    /\ CASE hubCmd.ch = "Register" -> HubRegister(hubCmd.h)
         [] hubCmd.ch = "Unregister" -> HubUnregister(hubCmd.h)
         [] hubCmd.ch = "Broadcast" -> HubBroadcast(hubCmd.n)
    /\ hubCmd' = NoCmd
    /\ UNCHANGED <<ws, chatVars, req>>
    /\ UNCHANGED <<callVars, sigVars, peerVars>>

\* main.go handleChatNotifications: the upgraded connection is sent on
\* Hub.Register; the send completes when the loop receives it.  The remote
\* endpoint of an earlier connection can be that of a later one (the peer
\* closed it and connected again from the same port) while the hub still
\* holds the earlier handle.
NextHandle == Cardinality(DOMAIN ws) + 1

handleChatNotifications(addr) ==
    /\ NextHandle <= MaxHandles
    /\ HubIdle
    /\ ws' = ws @@ (NextHandle :> [addr |-> addr, pc |-> "registered"])
    /\ hubCmd' = [ch |-> "Register", n |-> None, h |-> NextHandle]
    /\ UNCHANGED <<hubClients, hubClosed, hubLog, chatVars, req>>
    /\ UNCHANGED <<callVars, sigVars, peerVars>>

\* main.go handleChatNotifications, the goroutine: the request context is done,
\* the handle is sent on Hub.Unregister
NotificationsDone(h) ==
    /\ h \in DOMAIN ws
    /\ ws[h].pc = "registered"
    /\ HubIdle
    /\ ws' = [ws EXCEPT ![h].pc = "gone"]
    /\ hubCmd' = [ch |-> "Unregister", n |-> None, h |-> h]
    /\ UNCHANGED <<hubClients, hubClosed, hubLog, chatVars, req>>
    /\ UNCHANGED <<callVars, sigVars, peerVars>>

\* a caller of SendNotification (chat.go:215 and 378) seen from the hub: the
\* notification of the message with the next id
Broadcasts ==
    Cardinality({i \in 1..Len(hubLog) : hubLog[i].ch = "Broadcast"})
    + (IF hubCmd.ch = "Broadcast" THEN 1 ELSE 0)

Notify(sid, senderID) ==
    /\ Broadcasts < MaxBroadcasts
    /\ SendNotification(MessageNotification(sid,
           [ZeroMessage EXCEPT !.ID = Broadcasts + 1, !.SenderID = senderID,
                               !.Type = "text"]))
    /\ UNCHANGED <<chatVars, req>>
    /\ UNCHANGED <<callVars, sigVars, peerVars>>

\* --------------------------------------------------------------- call model
\* recording.go:10-25: MediaRecorder; made is FALSE for the nil pointer, closes
\* counts the close calls on stopRecording
NoRecorder == [made |-> FALSE, isRecording |-> FALSE, closes |-> 0]
NewMediaRecorder == [made |-> TRUE, isRecording |-> FALSE, closes |-> 0]

\* call.go:30-42, as far as modelled; PeerConnection 0 is nil
CallParticipant(pc, quality) ==
    [PeerConnection |-> pc, Status |-> "connected", IsMuted |-> FALSE,
     NetworkQuality |-> quality, MediaRecorder |-> NoRecorder]

NextCallId == Cardinality(DOMAIN callObj) + 1

\* call.go:70-100
NewCallSession(creatorID, callType) ==
    /\ LET id == NextCallId IN
        /\ callObj' = callObj @@ (id :>
               [Type |-> callType, CreatorID |-> creatorID,
                Participants |-> (creatorID :> CallParticipant(0, 0)),
                IsRecording |-> FALSE, InLobby |-> << >>])
        /\ callSessions' = callSessions \cup {id}
        /\ callExpiry' = callExpiry @@ (id :> [pc |-> "sleep", res |-> None])
    /\ UNCHANGED <<pcs, callTermOK, req, aux, chatVars, hubVars, sigVars, peerVars, audioVars>>

\* main.go:208-224 createCallSession, at most MaxSessions times
CreateCallSession(creatorID, callType) ==
    /\ NextCallId <= MaxSessions
    /\ NewCallSession(creatorID, callType)

\* cm.sessions[sessionID] under cm.mu
CallExists(sid) == sid \in callSessions

\* call.go:102-109; the handler has built a new peer connection for the call
JoinCallBegin(k, sid, participantID) ==
    /\ CanStart(k)
    /\ req' = Begin(k, "call.JoinCall", sid, participantID, None, CallExists(sid),
                    "jc_lock", sid \in callTermOK)
    /\ pcs' = pcs @@ (k :> [kinds |-> << >>, tracks |-> << >>, closed |-> 0])
    /\ UNCHANGED <<callSessions, callObj, callExpiry, callTermOK, aux, chatVars, hubVars, sigVars, peerVars, audioVars>>

\* call.go:114-121: the first lobby entry equal to the id is removed
RemoveFirst(lobby, id) ==
    IF id \notin Range(lobby) THEN lobby
    ELSE LET i == CHOOSE j \in 1..Len(lobby) :
                      lobby[j] = id /\ \A l \in 1..(j - 1) : lobby[l] # id
         IN SubSeq(lobby, 1, i - 1) \o SubSeq(lobby, i + 1, Len(lobby))

\* call.go:131-142: the transceivers JoinCall attaches, in order
Transceivers(callType) ==
    IF callType = "video" THEN <<"video", "audio">> ELSE <<"audio">>

\* call.go:111-144 under session.mu: lobby, the participant entry, then the
\* transceivers; AddTransceiverFromKind number failAt fails (0: none does)
JoinCallLock(k) ==
    /\ req[k].pc = "jc_lock"
    /\ LET sid == req[k].sid
           want == Transceivers(callObj[sid].Type)
       IN \E failAt \in 0..Len(want) :
            /\ callObj' = [callObj EXCEPT
                   ![sid].InLobby = RemoveFirst(@, req[k].who),
                   ![sid].Participants = (req[k].who :> CallParticipant(k, 5)) @@ @]
            /\ pcs' = [pcs EXCEPT ![k].kinds =
                   IF failAt = 0 THEN want ELSE SubSeq(want, 1, failAt - 1)]
            /\ req' = Return(k, IF failAt = 0 THEN OK ELSE Internal)
    /\ UNCHANGED <<callSessions, callExpiry, callTermOK, aux, chatVars, hubVars, sigVars, peerVars, audioVars>>

\* call.go:341-351
GetCallSession(k, sid) ==
    /\ CanStart(k)
    /\ req' = [req EXCEPT ![k] = [NewReq EXCEPT !.op = "call.GetCallSession",
                  !.sid = sid, !.pc = "done",
                  !.res = IF CallExists(sid) THEN OK ELSE NotFound,
                  !.late = sid \in callTermOK]]
    /\ UNCHANGED <<callVars, chatVars, hubVars, sigVars, peerVars, audioVars>>

\* call.go:236-243 under session.mu: Close on every participant's connection
ClosePeerConnections(sid) ==
    LET held == {callObj[sid].Participants[p].PeerConnection :
                    p \in DOMAIN callObj[sid].Participants} \ {0}
    IN [c \in DOMAIN pcs |->
           IF c \in held THEN [pcs[c] EXCEPT !.closed = @ + 1] ELSE pcs[c]]

\* the delete of call.go:246 left out
CallDelete_Keep(sid) == callSessions

\* call.go:245-247
CallDelete(sid) == callSessions \ {sid}

\* call.go:227-234: the lookup, cm.mu released before the session is touched
CallTerminateBegin(k, sid) ==
    /\ CanStart(k)
    /\ req' = Begin(k, "call.TerminateSession", sid, None, None, CallExists(sid),
                    "ct_close", sid \in callTermOK)
    /\ UNCHANGED <<callVars, chatVars, hubVars, sigVars, peerVars, audioVars>>

CallTerminateClose(k) ==
    /\ req[k].pc = "ct_close"
    /\ pcs' = ClosePeerConnections(req[k].sid)
    /\ req' = [req EXCEPT ![k].pc = "ct_delete"]
    /\ UNCHANGED <<callSessions, callObj, callExpiry, callTermOK, aux, chatVars, hubVars, sigVars, peerVars, audioVars>>

\* call.go:245-249
CallTerminateDelete(k) ==
    /\ req[k].pc = "ct_delete"
    /\ callSessions' = CallDelete(req[k].sid)
    /\ callTermOK' = callTermOK \cup {req[k].sid}
    /\ req' = Return(k, OK)
    /\ UNCHANGED <<callObj, callExpiry, pcs, aux, chatVars, hubVars, sigVars, peerVars, audioVars>>

\* call.go:93-97: the goroutine wakes after the duration and runs
\* TerminateSession, whose result is dropped
CallExpireBegin(sid) ==
    /\ sid \in DOMAIN callExpiry
    /\ callExpiry[sid].pc = "sleep"
    /\ callExpiry' = [callExpiry EXCEPT ![sid] =
           IF CallExists(sid) THEN [pc |-> "ct_close", res |-> None]
           ELSE [pc |-> "done", res |-> NotFound]]
    /\ UNCHANGED <<callSessions, callObj, pcs, callTermOK, req, aux, chatVars, hubVars, sigVars, peerVars, audioVars>>

CallExpireClose(sid) ==
    /\ sid \in DOMAIN callExpiry
    /\ callExpiry[sid].pc = "ct_close"
    /\ pcs' = ClosePeerConnections(sid)
    /\ callExpiry' = [callExpiry EXCEPT ![sid].pc = "ct_delete"]
    /\ UNCHANGED <<callSessions, callObj, callTermOK, req, aux, chatVars, hubVars, sigVars, peerVars, audioVars>>

CallExpireDelete(sid) ==
    /\ sid \in DOMAIN callExpiry
    /\ callExpiry[sid].pc = "ct_delete"
    /\ callSessions' = CallDelete(sid)
    /\ callTermOK' = callTermOK \cup {sid}
    /\ callExpiry' = [callExpiry EXCEPT ![sid] = [pc |-> "done", res |-> OK]]
    /\ UNCHANGED <<callObj, pcs, req, aux, chatVars, hubVars, sigVars, peerVars, audioVars>>

\* the lookup of a lobby or recording call (cm.mu held for the lookup only)
AuxStarted(a) == aux[a].pc # "new"
AuxCanStart(a) == /\ aux[a].pc = "new"
                  /\ \A j \in AuxIds : j < a => AuxStarted(j)
AuxBegin(a, op, sid, who, pc) ==
    [aux EXCEPT ![a] = [NewReq EXCEPT !.op = op, !.sid = sid, !.who = who,
                            !.late = sid \in callTermOK,
                            !.pc = IF CallExists(sid) THEN pc ELSE "done",
                            !.res = IF CallExists(sid) THEN None ELSE NotFound]]
AuxReturn(a, r) == [aux EXCEPT ![a].pc = "done", ![a].res = r]

\* call.go:147-154
AddToLobbyBegin(a, sid, participantID) ==
    /\ AuxCanStart(a)
    /\ aux' = AuxBegin(a, "call.AddToLobby", sid, participantID, "al_lock")
    /\ UNCHANGED <<callSessions, callObj, callExpiry, pcs, callTermOK, req>>
    /\ UNCHANGED <<chatVars, hubVars, sigVars, peerVars, audioVars>>

\* call.go:156-160 with the participant admitted at once
AddToLobbyLock_Admit(a) ==
    /\ aux[a].pc = "al_lock"
    /\ callObj' = [callObj EXCEPT
           ![aux[a].sid].InLobby = Append(@, aux[a].who),
           ![aux[a].sid].Participants =
               (aux[a].who :> CallParticipant(0, 5)) @@ @]
    /\ aux' = AuxReturn(a, OK)
    /\ UNCHANGED <<callSessions, callExpiry, pcs, callTermOK, req>>
    /\ UNCHANGED <<chatVars, hubVars, sigVars, peerVars, audioVars>>

\* call.go:156-160 under session.mu
AddToLobbyLock(a) ==
    /\ aux[a].pc = "al_lock"
    /\ callObj' = [callObj EXCEPT ![aux[a].sid].InLobby = Append(@, aux[a].who)]
    /\ aux' = AuxReturn(a, OK)
    /\ UNCHANGED <<callSessions, callExpiry, pcs, callTermOK, req>>
    /\ UNCHANGED <<chatVars, hubVars, sigVars, peerVars, audioVars>>

\* call.go:252-259 and 314-321, and 211-218 for ToggleRecording, which names
\* no participant
RecordingBegin(a, op, sid, participantID) ==
    /\ AuxCanStart(a)
    /\ aux' = AuxBegin(a, op, sid, participantID, "rec_lock")
    /\ UNCHANGED <<callSessions, callObj, callExpiry, pcs, callTermOK, req>>
    /\ UNCHANGED <<chatVars, hubVars, sigVars, peerVars, audioVars>>

\* recording.go:27-58: the tracks Start adds to the connection, in order
RecordingTracks == <<"audio", "video">>

\* recording.go:27-58: MediaRecorder.Start on recorder mr; added is how many
\* AddTrack calls succeeded (all of them: isRecording is set)
Start(mr, added) ==
    IF added = Len(RecordingTracks) THEN [mr EXCEPT !.isRecording = TRUE] ELSE mr

\* call.go:261-281 under session.mu and participant.mu.  AddTrack on a nil
\* connection panics (the deferred unlocks run); on a closed connection it
\* returns an error; on an open one it may return one.
StartRecordingLock(a) ==
    /\ aux[a].pc = "rec_lock"
    /\ aux[a].op = "call.StartRecording"
    /\ LET sid == aux[a].sid
           p == aux[a].who
           parts == callObj[sid].Participants
       IN IF p \notin DOMAIN parts
          THEN /\ aux' = AuxReturn(a, NotFound)
               /\ UNCHANGED <<callObj, pcs>>
          ELSE LET mr == IF parts[p].MediaRecorder.made
                         THEN parts[p].MediaRecorder ELSE NewMediaRecorder
                   c == parts[p].PeerConnection
               IN IF c = 0
                  THEN /\ aux' = AuxReturn(a, "panic")
                       /\ callObj' = [callObj EXCEPT
                              ![sid].Participants[p].MediaRecorder = mr]
                       /\ pcs' = pcs
                  ELSE \E added \in 0..Len(RecordingTracks) :
                         /\ pcs[c].closed > 0 => added = 0
                         /\ pcs' = [pcs EXCEPT ![c].tracks =
                                @ \o SubSeq(RecordingTracks, 1, added)]
                         /\ callObj' = [callObj EXCEPT
                                ![sid].Participants[p].MediaRecorder =
                                    Start(mr, added)]
                         /\ aux' = AuxReturn(a,
                                IF added = Len(RecordingTracks) THEN OK
                                ELSE Internal)
    /\ UNCHANGED <<callSessions, callExpiry, callTermOK, req>>
    /\ UNCHANGED <<chatVars, hubVars, sigVars, peerVars, audioVars>>

\* recording.go:60-65: MediaRecorder.Stop; closing the closed channel panics
\* before isRecording is cleared
Stop(mr) ==
    IF ~mr.isRecording THEN mr
    ELSE IF mr.closes > 0 THEN [mr EXCEPT !.closes = @ + 1]
    ELSE [mr EXCEPT !.closes = @ + 1, !.isRecording = FALSE]

\* call.go:323-338 under session.mu and participant.mu
StopRecordingLock(a) ==
    /\ aux[a].pc = "rec_lock"
    /\ aux[a].op = "call.StopRecording"
    /\ LET sid == aux[a].sid
           p == aux[a].who
           parts == callObj[sid].Participants
       IN IF p \notin DOMAIN parts
          THEN /\ aux' = AuxReturn(a, NotFound)
               /\ callObj' = callObj
          ELSE LET mr == parts[p].MediaRecorder IN
               /\ callObj' = [callObj EXCEPT
                      ![sid].Participants[p].MediaRecorder =
                          IF mr.made THEN Stop(mr) ELSE mr]
               /\ aux' = AuxReturn(a,
                      IF mr.made /\ mr.isRecording /\ mr.closes > 0
                      THEN "panic" ELSE OK)
    /\ UNCHANGED <<callSessions, callExpiry, pcs, callTermOK, req>>
    /\ UNCHANGED <<chatVars, hubVars, sigVars, peerVars, audioVars>>

\* main.go:331-363: the handler of a recording call has answered (a panic
\* of the call is recovered by middleware.Recover, main.go:29) and the next
\* recording request arrives
AuxAgain(a) ==
    /\ aux[a].pc = "done"
    /\ \A c \in DOMAIN pcs : Len(pcs[c].tracks) < Len(RecordingTracks) * MaxStarts
    /\ \A sid \in DOMAIN callObj : \A p \in DOMAIN callObj[sid].Participants :
           callObj[sid].Participants[p].MediaRecorder.closes < MaxStarts
    /\ aux' = [aux EXCEPT ![a] = NewReq]
    /\ UNCHANGED <<callSessions, callObj, callExpiry, pcs, callTermOK, req>>
    /\ UNCHANGED <<chatVars, hubVars, sigVars, peerVars, audioVars>>

\* call.go:220-222 with the flag set in place of flipped
ToggleRecordingLock_Set(a) ==
    /\ aux[a].pc = "rec_lock"
    /\ aux[a].op = "call.ToggleRecording"
    /\ callObj' = [callObj EXCEPT ![aux[a].sid].IsRecording = TRUE]
    /\ aux' = AuxReturn(a, OK)
    /\ UNCHANGED <<callSessions, callExpiry, pcs, callTermOK, req>>
    /\ UNCHANGED <<chatVars, hubVars, sigVars, peerVars, audioVars>>

\* call.go:220-222 under session.mu
ToggleRecordingLock(a) ==
    /\ aux[a].pc = "rec_lock"
    /\ aux[a].op = "call.ToggleRecording"
    /\ callObj' = [callObj EXCEPT ![aux[a].sid].IsRecording = ~@]
    /\ aux' = AuxReturn(a, OK)
    /\ UNCHANGED <<callSessions, callExpiry, pcs, callTermOK, req>>
    /\ UNCHANGED <<chatVars, hubVars, sigVars, peerVars, audioVars>>

\* call.go:187-194; quality is the int the handler decoded (main.go:302-312)
UpdateNetworkQualityBegin(a, sid, participantID, quality) ==
    /\ AuxCanStart(a)
    /\ aux' = [AuxBegin(a, "call.UpdateNetworkQuality", sid, participantID,
                        "nq_lock") EXCEPT ![a].arg = quality]
    /\ UNCHANGED <<callSessions, callObj, callExpiry, pcs, callTermOK, req>>
    /\ UNCHANGED <<chatVars, hubVars, sigVars, peerVars, audioVars>>

\* call.go:196-208 under session.mu and participant.mu
UpdateNetworkQualityLock(a) ==
    /\ aux[a].pc = "nq_lock"
    /\ LET sid == aux[a].sid
           p == aux[a].who
       IN IF p \notin DOMAIN callObj[sid].Participants
          THEN /\ aux' = AuxReturn(a, NotFound)
               /\ callObj' = callObj
          ELSE /\ callObj' = [callObj EXCEPT
                      ![sid].Participants[p].NetworkQuality = aux[a].arg]
               /\ aux' = AuxReturn(a, OK)
    /\ UNCHANGED <<callSessions, callExpiry, pcs, callTermOK, req>>
    /\ UNCHANGED <<chatVars, hubVars, sigVars, peerVars, audioVars>>

\* ------------------------------------------- attachments and reactions
\* chat.go:279-286 (AddAttachment) and 301-308 (AddReaction); the call is kept
\* in aux, arg is the message id and the attachment or reaction
AddItemBegin(a, op, sid, messageID, item) ==
    /\ AuxCanStart(a)
    /\ aux' = [aux EXCEPT ![a] = [NewReq EXCEPT !.op = op, !.sid = sid,
                  !.arg = <<messageID, item>>,
                  !.pc = IF ChatExists(sid) THEN "ai_lock" ELSE "done",
                  !.res = IF ChatExists(sid) THEN None ELSE NotFound]]
    /\ UNCHANGED <<callSessions, callObj, callExpiry, pcs, callTermOK, audioVars>>
    /\ UNCHANGED <<chatVars, req, hubVars, sigVars, peerVars>>

\* the append of chat.go:293 and 315 left out
AppendItem_Dropped(items, item) == items

\* chat.go:293 and 315
AppendItem(items, item) == Append(items, item)

\* chat.go:288-298 and 310-320 under session.mu: the first message with the id
AddItemLock(a) ==
    /\ aux[a].pc = "ai_lock"
    /\ ChatLockFree(aux[a].sid)
    /\ LET sid == aux[a].sid
           Messages == chatObj[sid].Messages
           found == {i \in 1..Len(Messages) : Messages[i].ID = aux[a].arg[1]}
       IN IF found = {}
          THEN /\ aux' = AuxReturn(a, NotFound)
               /\ chatObj' = chatObj
          ELSE LET i == CHOOSE x \in found : \A y \in found : x <= y IN
               /\ chatObj' =
                     IF aux[a].op = "chat.AddAttachment"
                     THEN [chatObj EXCEPT ![sid].Messages[i].Attachments =
                              AppendItem(@, aux[a].arg[2])]
                     ELSE [chatObj EXCEPT ![sid].Messages[i].Reactions =
                              AppendItem(@, aux[a].arg[2])]
               /\ aux' = AuxReturn(a, OK)
    /\ UNCHANGED <<chatSessions, chatExpiry, disk, chatTermOK, amOrder>>
    /\ UNCHANGED <<callSessions, callObj, callExpiry, pcs, callTermOK, audioVars>>
    /\ UNCHANGED <<req, hubVars, sigVars, peerVars>>

\* ------------------------------------------------------ audio level detector
\* message_types.go:57: 500 ms, in ticks
windowSize == 2

\* the blocks fed: two silent samples, the samples 32767 and -32768, no sample
SampleInputs == {<<0, 0, 0, 0>>, <<255, 127, 0, 128>>, << >>}

\* message_types.go:64: int16(binary.LittleEndian.Uint16(sample[i:]))
Int16(lo, hi) ==
    LET u == lo + 256 * hi IN IF u >= 32768 THEN u - 65536 ELSE u

\* message_types.go:62-66: the sum of math.Abs over the first n samples
RECURSIVE SumAbs(_, _)
SumAbs(sample, n) ==
    IF n = 0 THEN 0
    ELSE LET value == Int16(sample[2 * n - 1], sample[2 * n])
         IN SumAbs(sample, n - 1) + (IF value < 0 THEN -value ELSE value)

\* float64 levels are kept in units of 1/65536, which is exact for the blocks
\* fed; NaN is what 0/0 gives for a block without samples
One == 65536
NaN == -1

\* message_types.go:67
Level(sample) ==
    LET n == Len(sample) \div 2
    IN IF n = 0 THEN NaN ELSE (SumAbs(sample, n) * (One \div 32768)) \div n

\* message_types.go:75-81: the levels from the first one after the cutoff on;
\* all of them when none is after the cutoff
Retained(levels, cutoff) ==
    LET after == {i \in 1..Len(levels) : levels[i].Timestamp > cutoff}
    IN IF after = {} THEN levels
       ELSE SubSeq(levels, CHOOSE i \in after : \A j \in after : i <= j,
                   Len(levels))

RECURSIVE LevelSum(_)
LevelSum(levels) ==
    IF levels = << >> THEN 0 ELSE Head(levels).Level + LevelSum(Tail(levels))

\* message_types.go:95-105, as the fraction sum/n; a NaN level makes it NaN
getAverageLevel(levels) ==
    IF Len(levels) = 0 THEN [nan |-> FALSE, sum |-> 0, n |-> 1]
    ELSE [nan |-> \E i \in 1..Len(levels) : levels[i].Level = NaN,
          sum |-> LevelSum(levels), n |-> Len(levels)]

\* message_types.go:86 with threshold 0.3 (line 56); NaN > 0.3 is false
AboveThreshold(avg) == ~avg.nan /\ 10 * avg.sum > 3 * avg.n * One

\* message_types.go:54-59
NewAudioLevelDetector ==
    [levels |-> << >>, isSpeaking |-> FALSE, lastUpdate |-> 0, speakingTime |-> 0]

\* message_types.go:91 with = in place of +=
Accumulate_Overwrite(speakingTime, since) == since

\* message_types.go:91
Accumulate(speakingTime, since) == speakingTime + since

\* message_types.go:61-93; the clock is read at line 71, at line 75 (d1 ticks
\* later) and at line 89 or 91 (d2 ticks after that)
ProcessAudioLevel(sample, d1, d2) ==
    /\ Len(audioLog.fed) < MaxBlocks
    /\ clock + d1 + d2 <= MaxClock
    /\ LET t1 == clock
           t2 == clock + d1
           t3 == clock + d1 + d2
           levels == Retained(Append(detector.levels,
                                     [Level |-> Level(sample), Timestamp |-> t1]),
                              t2 - windowSize)
           wasSpeaking == detector.isSpeaking
           isSpeaking == AboveThreshold(getAverageLevel(levels))
       IN /\ detector' =
                 [levels |-> levels,
                  isSpeaking |-> isSpeaking,
                  lastUpdate |-> IF isSpeaking /\ ~wasSpeaking THEN t3
                                 ELSE detector.lastUpdate,
                  speakingTime |->
                      IF ~isSpeaking /\ wasSpeaking
                      THEN Accumulate(detector.speakingTime,
                                      t3 - detector.lastUpdate)
                      ELSE detector.speakingTime]
          /\ clock' = t3
          /\ audioLog' = [audioLog EXCEPT !.fed = Append(@,
                 [sample |-> sample, at |-> t3, isSpeaking |-> isSpeaking])]
    /\ UNCHANGED <<callSessions, callObj, callExpiry, pcs, callTermOK, aux>>
    /\ UNCHANGED <<chatVars, req, hubVars, sigVars, peerVars>>

\* message_types.go:111-116: the value returned at the present time
SpeakingTime ==
    IF detector.isSpeaking
    THEN detector.speakingTime + (clock - detector.lastUpdate)
    ELSE detector.speakingTime

\* a call of GetSpeakingTime
GetSpeakingTime ==
    /\ audioLog' = [audioLog EXCEPT !.got = SpeakingTime]
    /\ UNCHANGED <<clock, detector>>
    /\ UNCHANGED <<callSessions, callObj, callExpiry, pcs, callTermOK, aux>>
    /\ UNCHANGED <<chatVars, req, hubVars, sigVars, peerVars>>

\* time passes
Tick ==
    /\ clock < MaxClock
    /\ clock' = clock + 1
    /\ UNCHANGED <<detector, audioLog>>
    /\ UNCHANGED <<callSessions, callObj, callExpiry, pcs, callTermOK, aux>>
    /\ UNCHANGED <<chatVars, req, hubVars, sigVars, peerVars>>

\* --------------------------------------------------------- signaling router
\* A JSON value: a string, or a non-negative integer literal hi * 2^27 + lo
Word == 2 ^ 27
Str(s) == [t |-> "string", s |-> s, hi |-> 0, lo |-> 0]
Num(hi, lo) == [t |-> "number", s |-> "", hi |-> hi, lo |-> lo]

\* the bytes of a websocket message: a JSON object with its members, or
\* something that is not a JSON object
Object(fields) == [object |-> TRUE, fields |-> fields]
NotJSON == [object |-> FALSE, fields |-> << >>]

TargetInputs == {Str(p) : p \in PeerIds} \cup {Num(0, 7)}
\* an SDP string; the integer 2^53 + 1
Offer == Str("offer")
BigNumber == Num(2 ^ 26, 1)
RawInputs ==
    {NotJSON, Object([data |-> Offer])}
    \cup {Object([targetPeerId |-> t, data |-> Offer]) : t \in TargetInputs}
    \cup {Object([targetPeerId |-> Str(p), data |-> BigNumber]) : p \in {"p1"}}

\* recording.go:109-110: json.Unmarshal into map[string]interface{} stores a
\* number as the nearest float64, ties to even: exact below 2^53, and the
\* multiples of 2 from there to 2^54
Float64(v) ==
    IF v.hi < 2 ^ 26 THEN v
    ELSE LET n == CASE v.lo % 4 = 1 -> v.lo - 1
                    [] v.lo % 4 = 3 -> v.lo + 1
                    [] OTHER -> v.lo
         IN IF n = Word THEN Num(v.hi + 1, 0) ELSE Num(v.hi, n)

DecodeValue(v) == IF v.t = "number" THEN Float64(v) ELSE v

\* recording.go:109-113
Decode(raw) ==
    IF raw.object
    THEN [ok |-> TRUE, msg |-> [f \in DOMAIN raw.fields |-> DecodeValue(raw.fields[f])]]
    ELSE [ok |-> FALSE, msg |-> << >>]

\* recording.go:135: WriteJSON marshals the map; a float64 holding an integer
\* is written with all its digits
Encode(msg) == Object(msg)

\* recording.go:120: msg["targetPeerId"].(string)
HasTarget(msg) == "targetPeerId" \in DOMAIN msg /\ msg.targetPeerId.t = "string"
TargetPeerId(msg) == msg.targetPeerId.s

\* recording.go:126-128: the connection looked up for the message
TargetConn(c, msg) == sigClients[TargetPeerId(msg)]

NextConn == Cardinality(DOMAIN sig) + 1

\* what is handled so far: the messages logged and those being written
Envelopes ==
    Len(sigLog) + Cardinality({c \in DOMAIN sig : sig[c].pc = "write"})

\* what the router appends to its history for a message it is done with
Handled(c, raw, outcome, to, out) ==
    [from |-> c, raw |-> raw, outcome |-> outcome, to |-> to, out |-> out]

\* recording.go:89-92, called by main.go handleWebSocket with a new connection
\* and a non-empty peerID
HandleWebSocket(peerID) ==
    /\ NextConn <= MaxConns
    /\ sig' = sig @@ (NextConn :>
           [peer |-> peerID, pc |-> "read", raw |-> NotJSON, msg |-> << >>,
            tconn |-> 0])
    /\ sigClients' = (peerID :> NextConn) @@ sigClients
    /\ UNCHANGED <<sigClosed, sigLog, chatVars, req, hubVars, callVars, peerVars>>

\* the delete of recording.go:96 left out
Cleanup_KeepMapping(clients, peerID) == clients

\* recording.go:94-99, the deferred function
Cleanup(clients, peerID) == [p \in DOMAIN clients \ {peerID} |-> clients[p]]

\* recording.go:103-107: ReadMessage returns an error, the loop is left and the
\* deferred function runs
ReadFailed(c) ==
    /\ c \in DOMAIN sig
    /\ sig[c].pc = "read"
    /\ sig' = [sig EXCEPT ![c].pc = "closed"]
    /\ sigClients' = Cleanup(sigClients, sig[c].peer)
    /\ sigClosed' = sigClosed \cup {c}
    /\ UNCHANGED <<sigLog, chatVars, req, hubVars, callVars, peerVars>>

\* recording.go:103-133: a message is read and decoded.  A message that is no
\* JSON object makes log.Panicln panic, and the deferred function runs while
\* the panic unwinds; a message without a string targetPeerId, or for a peer
\* id not in the map, is logged and dropped; otherwise the connection found
\* under the mutex is the one the message will be written to.
ReadMessage(c, raw) ==
    /\ c \in DOMAIN sig
    /\ sig[c].pc = "read"
    /\ Envelopes < MaxEnvelopes
    /\ LET d == Decode(raw)
           read == [sig[c] EXCEPT !.raw = raw, !.msg = d.msg] IN
       IF ~d.ok
       THEN /\ sig' = [sig EXCEPT ![c] = [read EXCEPT !.pc = "panicked"]]
            /\ sigClients' = Cleanup(sigClients, sig[c].peer)
            /\ sigClosed' = sigClosed \cup {c}
            /\ sigLog' = Append(sigLog, Handled(c, raw, "panic", 0, NotJSON))
       ELSE IF ~HasTarget(d.msg) \/ TargetPeerId(d.msg) \notin DOMAIN sigClients
       THEN /\ sig' = [sig EXCEPT ![c] = read]
            /\ sigLog' = Append(sigLog, Handled(c, raw, "dropped", 0, NotJSON))
            /\ UNCHANGED <<sigClients, sigClosed>>
       ELSE /\ sig' = [sig EXCEPT ![c] =
                   [read EXCEPT !.pc = "write", !.tconn = TargetConn(c, d.msg)]]
            /\ UNCHANGED <<sigClients, sigClosed, sigLog>>
    /\ UNCHANGED <<chatVars, req, hubVars, callVars, peerVars>>

\* recording.go:135-138: WriteJSON on the connection found; a write to a closed
\* connection fails, a write to an open one may fail; the error is logged
WriteJSON(c) ==
    /\ c \in DOMAIN sig
    /\ sig[c].pc = "write"
    /\ \E ok \in BOOLEAN :
        /\ sig[c].tconn \in sigClosed => ~ok
        /\ sigLog' = Append(sigLog,
               Handled(c, sig[c].raw, IF ok THEN "written" ELSE "failed",
                       sig[c].tconn, Encode(sig[c].msg)))
    /\ sig' = [sig EXCEPT ![c].pc = "read"]
    /\ UNCHANGED <<sigClients, sigClosed, chatVars, req, hubVars, callVars, peerVars>>

\* ------------------------------------------------------------ peer manager
\* what a call on the PeerManager answers; every method holds pm.mutex from
\* its first statement to its return, so that a call is one step
Answer(op, peerID, res) == [op |-> op, id |-> peerID, res |-> res]

\* peer.go:47
Stored(conns, peerID, pc) == (peerID :> pc) @@ conns

\* the delete of peer.go:79 left out
Deleted_Keep(conns, peerID) == conns

\* peer.go:79
Deleted(conns, peerID) == [p \in DOMAIN conns \ {peerID} |-> conns[p]]

\* peer.go:30-49; webrtc.NewPeerConnection may return an error
CreatePeerConnection(peerID) ==
    /\ Len(peerConns) < MaxPeerConns
    /\ IF peerID \in DOMAIN peerConnections
       THEN /\ peerRes' = Answer("CreatePeerConnection", peerID, Conflict)
            /\ UNCHANGED <<peerConnections, peerConns>>
       ELSE \E built \in BOOLEAN :
              IF built
              THEN /\ peerConns' = Append(peerConns, [peer |-> peerID, closed |-> FALSE])
                   /\ peerConnections' = Stored(peerConnections, peerID, Len(peerConns) + 1)
                   /\ peerRes' = Answer("CreatePeerConnection", peerID, OK)
              ELSE /\ peerRes' = Answer("CreatePeerConnection", peerID, Internal)
                   /\ UNCHANGED <<peerConnections, peerConns>>
    /\ UNCHANGED <<chatVars, req, hubVars, callVars, sigVars>>

\* peer.go:52-62
GetPeerConnection(peerID) ==
    /\ peerRes' = Answer("GetPeerConnection", peerID,
                         IF peerID \in DOMAIN peerConnections THEN OK ELSE NotFound)
    /\ UNCHANGED <<peerConnections, peerConns>>
    /\ UNCHANGED <<chatVars, req, hubVars, callVars, sigVars>>

\* peer.go:65-81; when Close returns an error the entry stays
ClosePeerConnection(peerID) ==
    /\ IF peerID \notin DOMAIN peerConnections
       THEN /\ peerRes' = Answer("ClosePeerConnection", peerID, NotFound)
            /\ UNCHANGED <<peerConnections, peerConns>>
       ELSE \E closed \in BOOLEAN :
              IF closed
              THEN /\ peerConns' = [peerConns EXCEPT
                          ![peerConnections[peerID]].closed = TRUE]
                   /\ peerConnections' = Deleted(peerConnections, peerID)
                   /\ peerRes' = Answer("ClosePeerConnection", peerID, OK)
              ELSE /\ peerRes' = Answer("ClosePeerConnection", peerID, Internal)
                   /\ UNCHANGED <<peerConnections, peerConns>>
    /\ UNCHANGED <<chatVars, req, hubVars, callVars, sigVars>>

\* peer.go:84-99; the candidate may be refused by the connection
AddICECandidate(peerID) ==
    /\ \E added \in BOOLEAN :
         peerRes' = Answer("AddICECandidate", peerID,
                           IF peerID \notin DOMAIN peerConnections THEN NotFound
                           ELSE IF added THEN OK ELSE Internal)
    /\ UNCHANGED <<peerConnections, peerConns>>
    /\ UNCHANGED <<chatVars, req, hubVars, callVars, sigVars>>

\* --------------------------------------------------------------- the system
InitChat ==
    /\ chatSessions = {}
    /\ chatObj = << >>
    /\ chatExpiry = << >>
    /\ disk = << >>
    /\ chatTermOK = {}
    /\ amOrder = << >>
    /\ req = [k \in ReqIds |-> NewReq]

InitHub ==
    /\ hubCmd = NoCmd
    /\ hubClients = << >>
    /\ hubClosed = {}
    /\ hubLog = << >>
    /\ ws = << >>

InitCall ==
    /\ callSessions = {}
    /\ callObj = << >>
    /\ callExpiry = << >>
    /\ pcs = << >>
    /\ callTermOK = {}
    /\ aux = [a \in AuxIds |-> NewReq]
    /\ clock = 0
    /\ detector = NewAudioLevelDetector
    /\ audioLog = [fed |-> << >>, got |-> -1]

InitSig ==
    /\ sigClients = << >>
    /\ sig = << >>
    /\ sigClosed = {}
    /\ sigLog = << >>

\* peer.go:25-27
InitPeer ==
    /\ peerConnections = << >>
    /\ peerConns = << >>
    /\ peerRes = Answer(None, None, None)

Init == InitChat /\ InitHub /\ InitCall /\ InitSig /\ InitPeer

ChatRequest(k) ==
    \/ \E sid \in SessionIds, u \in Users, type \in TypeInputs :
           AddMessageBegin(k, sid, u, type)
    \/ AddMessageLock(k)
    \/ AddMessageAppend(k)
    \/ AddMessageNotify(k)
    \/ \E sid \in SessionIds : GetChatMessages(k, sid)
    \/ \E sid \in SessionIds : ChatTerminate(k, sid)
    \/ \E sid \in SessionIds, u \in Users, action \in ActionInputs :
           ModerateBegin(k, sid, u, action)
    \/ ModerateLock(k)
    \/ ModerateNotify(k)

CallRequest(k) ==
    \/ \E sid \in SessionIds, u \in Users : JoinCallBegin(k, sid, u)
    \/ JoinCallLock(k)
    \/ \E sid \in SessionIds : GetCallSession(k, sid)
    \/ \E sid \in SessionIds : CallTerminateBegin(k, sid)
    \/ CallTerminateClose(k)
    \/ CallTerminateDelete(k)

NextChat ==
    \/ \E c \in CreatorIds, ps \in ParticipantLists : CreateChatSession(c, ps)
    \/ \E k \in ReqIds : ChatRequest(k)
    \/ \E sid \in SessionIds : ChatExpire(sid)
    \/ HubRun

RoleRequest(k) ==
    \/ \E sid \in SessionIds, a \in Users, u \in Users, r \in RoleInputs :
           ModifyRoleBegin(k, sid, a, u, r)
    \/ ModifyRoleLock(k)
    \/ \E sid \in SessionIds, a \in Users, u \in Users,
          op \in {"chat.ToggleParticipantPin", "chat.PinParticipant"} :
           TogglePinBegin(k, op, sid, a, u)
    \/ TogglePinLock(k)

NextRoles == \E k \in ReqIds : RoleRequest(k)

AuxRequest(a) ==
    \/ \E sid \in SessionIds, u \in Users : AddToLobbyBegin(a, sid, u)
    \/ AddToLobbyLock(a)
    \/ \E sid \in SessionIds, u \in Users,
          op \in {"call.StartRecording", "call.StopRecording"} :
           RecordingBegin(a, op, sid, u)
    \/ StartRecordingLock(a)
    \/ StopRecordingLock(a)

NextAux == \E a \in AuxIds : AuxRequest(a)

NextCall ==
    \/ \E c \in CreatorIds, t \in CallTypeInputs : CreateCallSession(c, t)
    \/ \E k \in ReqIds : CallRequest(k)
    \/ \E sid \in SessionIds : CallExpireBegin(sid)
    \/ \E sid \in SessionIds : CallExpireClose(sid)
    \/ \E sid \in SessionIds : CallExpireDelete(sid)

Next == NextChat \/ NextCall

NextHub ==
    \/ \E a \in Addrs : handleChatNotifications(a)
    \/ \E h \in 1..MaxHandles : NotificationsDone(h)
    \/ \E sid \in SessionIds, u \in CreatorIds : Notify(sid, u)
    \/ HubRun

NextRouter ==
    \/ \E p \in PeerIds : HandleWebSocket(p)
    \/ \E c \in 1..MaxConns : ReadFailed(c)
    \/ \E c \in 1..MaxConns, raw \in RawInputs : ReadMessage(c, raw)
    \/ \E c \in 1..MaxConns : WriteJSON(c)

\* the chat registry with its hub
Spec == Init /\ [][NextChat]_vars

\* the chat registry with the role and pin operations
SpecRoles == Init /\ [][NextChat \/ NextRoles]_vars

\* the call registry with the lobby and recording operations
SpecCall == Init /\ [][NextCall \/ NextAux]_vars

\* both registries
SpecSessions == Init /\ [][Next]_vars

\* the hub with its subscribers
SpecHub == Init /\ [][NextHub]_vars

\* the signaling router
SpecRouter == Init /\ [][NextRouter]_vars

\* sessions, their explicit termination and their expiry tasks, with up to
\* MaxExpirySessions sessions of each kind
ExpirySessionIds == 1..MaxExpirySessions

NextExpiry ==
    \/ \E c \in CreatorIds, ps \in ParticipantLists :
           NextChatId <= MaxExpirySessions /\ NewChatSession(c, ps)
    \/ \E c \in CreatorIds, t \in CallTypeInputs :
           NextCallId <= MaxExpirySessions /\ NewCallSession(c, t)
    \/ \E k \in ReqIds, sid \in ExpirySessionIds : ChatTerminate(k, sid)
    \/ \E k \in ReqIds, sid \in ExpirySessionIds : CallTerminateBegin(k, sid)
    \/ \E k \in ReqIds : CallTerminateClose(k)
    \/ \E k \in ReqIds : CallTerminateDelete(k)
    \/ \E sid \in ExpirySessionIds : ChatExpire(sid)
    \/ \E sid \in ExpirySessionIds : CallExpireBegin(sid)
    \/ \E sid \in ExpirySessionIds : CallExpireClose(sid)
    \/ \E sid \in ExpirySessionIds : CallExpireDelete(sid)

SpecExpiry == Init /\ [][NextExpiry]_vars

\* attachments and reactions on the messages of the chat sessions
NextItems ==
    \/ \E c \in CreatorIds, ps \in ParticipantLists : CreateChatSession(c, ps)
    \/ \E k \in ReqIds, sid \in SessionIds, u \in Users, type \in TypeInputs :
           AddMessageBegin(k, sid, u, type)
    \/ \E k \in ReqIds : AddMessageLock(k)
    \/ \E k \in ReqIds : AddMessageAppend(k)
    \/ \E k \in ReqIds : AddMessageNotify(k)
    \/ HubRun
    \/ \E a \in AuxIds, sid \in SessionIds, m \in ReqIds, item \in {"i1", "i2"},
          op \in {"chat.AddAttachment", "chat.AddReaction"} :
           AddItemBegin(a, op, sid, m, item)
    \/ \E a \in AuxIds : AddItemLock(a)

SpecItems == Init /\ [][NextItems]_vars

\* the participants of a call, their network quality and their recorders, and
\* the recording flag of the session
NextCallState ==
    \/ \E c \in CreatorIds, t \in CallTypeInputs : CreateCallSession(c, t)
    \/ \E k \in ReqIds, sid \in SessionIds, u \in Users : JoinCallBegin(k, sid, u)
    \/ \E k \in ReqIds : JoinCallLock(k)
    \/ \E a \in AuxIds, sid \in SessionIds, u \in Users, q \in QualityInputs :
           UpdateNetworkQualityBegin(a, sid, u, q)
    \/ \E a \in AuxIds : UpdateNetworkQualityLock(a)
    \/ \E a \in AuxIds, sid \in SessionIds, u \in Users,
          op \in {"call.StartRecording", "call.StopRecording"} :
           RecordingBegin(a, op, sid, u)
    \/ \E a \in AuxIds, sid \in SessionIds :
           RecordingBegin(a, "call.ToggleRecording", sid, None)
    \/ \E a \in AuxIds : StartRecordingLock(a)
    \/ \E a \in AuxIds : StopRecordingLock(a)
    \/ \E a \in AuxIds : ToggleRecordingLock(a)

SpecCallState == Init /\ [][NextCallState]_vars

\* a call session whose participants are recorded, call after call
NextRecording ==
    \/ \E c \in CreatorIds, t \in CallTypeInputs : CreateCallSession(c, t)
    \/ \E k \in ReqIds, sid \in SessionIds, u \in Users : JoinCallBegin(k, sid, u)
    \/ \E k \in ReqIds : JoinCallLock(k)
    \/ \E a \in AuxIds, sid \in SessionIds, u \in Users,
          op \in {"call.StartRecording", "call.StopRecording"} :
           RecordingBegin(a, op, sid, u)
    \/ \E a \in AuxIds : StartRecordingLock(a)
    \/ \E a \in AuxIds : StopRecordingLock(a)
    \/ \E a \in AuxIds : AuxAgain(a)

SpecRecording == Init /\ [][NextRecording]_vars

\* messages of up to MaxExpirySessions chat sessions and the subscribers of
\* their notifications
NextNotify ==
    \/ \E c \in CreatorIds, ps \in ParticipantLists :
           NextChatId <= MaxExpirySessions /\ NewChatSession(c, ps)
    \/ \E k \in ReqIds, sid \in ExpirySessionIds, u \in CreatorIds :
           AddMessageBegin(k, sid, u, "text")
    \/ \E k \in ReqIds : AddMessageLock(k)
    \/ \E k \in ReqIds : AddMessageAppend(k)
    \/ \E k \in ReqIds : AddMessageNotify(k)
    \/ \E a \in Addrs : handleChatNotifications(a)
    \/ \E h \in 1..MaxHandles : NotificationsDone(h)
    \/ HubRun

SpecNotify == Init /\ [][NextNotify]_vars

\* the PeerManager of main.go:31
NextPeer ==
    \/ \E p \in PeerIds : CreatePeerConnection(p)
    \/ \E p \in PeerIds : GetPeerConnection(p)
    \/ \E p \in PeerIds : ClosePeerConnection(p)
    \/ \E p \in PeerIds : AddICECandidate(p)

SpecPeer == Init /\ [][NextPeer]_vars

\* one audio level detector, fed block after block
NextAudio ==
    \/ \E sample \in SampleInputs, d1, d2 \in 0..1 :
           ProcessAudioLevel(sample, d1, d2)
    \/ GetSpeakingTime
    \/ Tick

SpecAudio == Init /\ [][NextAudio]_vars

\* the expiry goroutines are scheduled: a runnable goroutine eventually runs, and
\* a sync.Mutex it waits for is eventually handed to it
ExpiryFairness ==
    \A sid \in SessionIds :
        /\ WF_vars(ChatExpire(sid))
        /\ WF_vars(CallExpireBegin(sid))
        /\ WF_vars(CallExpireClose(sid))
        /\ WF_vars(CallExpireDelete(sid))

FairSessions == SpecSessions /\ ExpiryFairness

\* the steps of a started facade operation: the acquisition of session.mu, the
\* body under it, and the send on the hub's channel
Continue(k) ==
    \/ AddMessageLock(k) \/ AddMessageAppend(k) \/ AddMessageNotify(k)
    \/ ModerateLock(k) \/ ModerateNotify(k)
    \/ JoinCallLock(k) \/ CallTerminateClose(k) \/ CallTerminateDelete(k)

\* the goroutines of the requests and the hub's loop (chat.go:81) are scheduled;
\* a transport write of the loop returns (HubRun is one finished iteration)
OperationFairness ==
    /\ WF_vars(HubRun)
    /\ \A k \in ReqIds : WF_vars(Continue(k))

FairOperations == SpecSessions /\ ExpiryFairness /\ OperationFairness

\* ------------------------------------------------------------------ claims
IsOp(k, op) == req[k].op = op
Returned(k, op, r) == IsOp(k, op) /\ Done(k) /\ req[k].res = r

\* C1: concurrent AddMessage calls that pass validation leave the session's
\* messages holding each message exactly once, in the order the calls acquired
\* session.mu, and GetChatMessages never returns anything but such messages in
\* that order.
C1_AppendOrder ==
    \A sid \in DOMAIN chatObj :
        LET msgs == chatObj[sid].Messages IN
        /\ Len(msgs) + Cardinality(Appending(sid)) = Len(amOrder[sid])
        /\ \A i \in 1..Len(msgs) : msgs[i] = req[amOrder[sid][i]].msg

C1_ReadsClean ==
    \A k \in ReqIds :
        Returned(k, "chat.GetChatMessages", OK) =>
            \A i \in 1..Len(req[k].ret) :
                /\ i <= Len(amOrder[req[k].sid])
                /\ req[k].ret[i] = req[amOrder[req[k].sid][i]].msg

C1_SerializedMessages == C1_AppendOrder /\ C1_ReadsClean

\* C2: an AddMessage whose sender is not a key of the participant map when the
\* call holds session.mu returns Forbidden, whatever its type, and that call
\* changes no session, writes no snapshot and hands the hub nothing.
C2_PastCheck ==
    \A k \in ReqIds :
        (IsOp(k, "chat.AddMessage") /\ req[k].pc \in {"am_append", "am_notify"})
            => req[k].who \in DOMAIN chatObj[req[k].sid].Participants

C2_Step ==
    \A k \in ReqIds :
        (/\ req[k].pc = "am_lock"
         /\ req'[k].pc # "am_lock"
         /\ req[k].who \notin DOMAIN chatObj[req[k].sid].Participants)
        => /\ req'[k].pc = "done"
           /\ req'[k].res = Forbidden
           /\ chatObj' = chatObj
           /\ disk' = disk
           /\ hubCmd' = hubCmd

C2_NonParticipantForbidden == [] C2_PastCheck /\ [][C2_Step]_vars

C2_Witness ==
    \E k \in ReqIds :
        /\ Returned(k, "chat.AddMessage", Forbidden)
        /\ req[k].arg \notin ValidMessageTypes
        /\ req[k].who \notin DOMAIN chatObj[req[k].sid].Participants

\* C3: a lookup that starts after TerminateSession(id) returned success finds
\* nothing: the operation returns NotFound at once, in the chat and in the call
\* registry.
C3_NotFoundAfterTerminate ==
    \A k \in ReqIds : req[k].late => (Done(k) /\ req[k].res = NotFound)

C3_Witness ==
    \E j, k \in ReqIds :
        /\ Returned(j, "chat.AddMessage", NotFound) /\ req[j].late
        /\ Returned(k, "call.JoinCall", NotFound) /\ req[k].late

\* C4: every session in a registry is eventually removed from it, the expiry
\* goroutine having run, whatever the facade calls do meanwhile; no step of a
\* facade call touches an expiry goroutine.
C4_ChatRemoved(sid) ==
    (sid \in chatSessions)
        ~> (/\ sid \notin chatSessions
            /\ sid \in DOMAIN chatExpiry /\ chatExpiry[sid].pc = "done")
C4_CallRemoved(sid) ==
    (sid \in callSessions)
        ~> (/\ sid \notin callSessions
            /\ sid \in DOMAIN callExpiry /\ callExpiry[sid].pc = "done")
C4_NotPostponed ==
    (req' # req) => (chatExpiry' = chatExpiry /\ callExpiry' = callExpiry)

C4_ExpiryRemoves ==
    /\ \A sid \in SessionIds : C4_ChatRemoved(sid) /\ C4_CallRemoved(sid)
    /\ [][C4_NotPostponed]_vars

C4_Witness ==
    \E s, c \in SessionIds :
        /\ s \in DOMAIN chatExpiry /\ chatExpiry[s].res = OK
        /\ Len(chatObj[s].Messages) > 0
        /\ c \in DOMAIN callExpiry /\ callExpiry[c].res = OK
        /\ Cardinality(DOMAIN callObj[c].Participants) > 1

\* C5: of the TerminateSession calls on one session (the expiry goroutine's
\* among them) exactly one returns success, in the chat and in the call registry.
ChatTerminatedOK(sid) ==
    Cardinality({k \in ReqIds : Returned(k, "chat.TerminateSession", OK)
                                  /\ req[k].sid = sid})
    + (IF sid \in DOMAIN chatExpiry /\ chatExpiry[sid].res = OK THEN 1 ELSE 0)
CallTerminatedOK(sid) ==
    Cardinality({k \in ReqIds : Returned(k, "call.TerminateSession", OK)
                                  /\ req[k].sid = sid})
    + (IF sid \in DOMAIN callExpiry /\ callExpiry[sid].res = OK THEN 1 ELSE 0)

C5_OneTerminateSucceeds ==
    \A sid \in SessionIds :
        /\ ChatTerminatedOK(sid) <= 1
        /\ CallTerminatedOK(sid) <= 1
        /\ (sid \in DOMAIN chatObj /\ sid \notin chatSessions)
               => ChatTerminatedOK(sid) = 1
        /\ (sid \in DOMAIN callObj /\ sid \notin callSessions)
               => CallTerminatedOK(sid) = 1

\* C6: once ModerateParticipant(session, p, "remove") has taken effect, p is
\* no key of the participant map, and an AddMessage from p that acquires
\* session.mu afterwards returns Forbidden.
Removed(sid, p) ==
    \E j \in ReqIds :
        /\ IsOp(j, "chat.ModerateParticipant")
        /\ req[j].sid = sid /\ req[j].who = p /\ req[j].arg = "remove"
        /\ \/ req[j].pc = "mp_notify"
           \/ Done(j) /\ req[j].res \in {OK, Internal}

C6_Gone ==
    \A sid \in DOMAIN chatObj, p \in Users :
        Removed(sid, p) => p \notin DOMAIN chatObj[sid].Participants

C6_Step ==
    \A k \in ReqIds :
        (/\ req[k].pc = "am_lock"
         /\ req'[k].pc # "am_lock"
         /\ Removed(req[k].sid, req[k].who))
        => (req'[k].pc = "done" /\ req'[k].res = Forbidden)

C6_RemovedStaysOut == [] C6_Gone /\ [][C6_Step]_vars

C6_Witness ==
    \E j, k \in ReqIds :
        /\ Returned(j, "chat.ModerateParticipant", OK)
        /\ req[j].arg = "remove"
        /\ Returned(k, "chat.AddMessage", Forbidden)
        /\ req[k].sid = req[j].sid /\ req[k].who = req[j].who
        /\ ValidType(req[k].arg)

\* C7: once the hub loop has processed Register(h), every broadcast it
\* processes afterwards, before an Unregister(h) or a failed write to h, is
\* written to h exactly once; once it has processed Unregister(h), no later
\* broadcast is written to h.
HubWrites(j, h) ==
    Cardinality({w \in 1..Len(hubLog[j].writes) : hubLog[j].writes[w].to = h})
HubLost(m, h) ==
    \/ hubLog[m].ch = "Unregister" /\ hubLog[m].h = h
    \/ \E w \in 1..Len(hubLog[m].writes) :
           hubLog[m].writes[w].to = h /\ ~hubLog[m].writes[w].ok

C7_RegisteredReceives ==
    \A i, j \in 1..Len(hubLog) :
        (/\ i < j
         /\ hubLog[i].ch = "Register"
         /\ hubLog[j].ch = "Broadcast"
         /\ \A m \in (i + 1)..(j - 1) : ~HubLost(m, hubLog[i].h))
        => HubWrites(j, hubLog[i].h) = 1

C7_UnregisteredSilent ==
    \A i, j \in 1..Len(hubLog) :
        (i < j /\ hubLog[i].ch = "Unregister" /\ hubLog[j].ch = "Broadcast")
        => HubWrites(j, hubLog[i].h) = 0

C7_HubDelivery == C7_RegisteredReceives /\ C7_UnregisteredSilent

\* C8: a handle whose write fails during a broadcast is closed and is no
\* subscriber any more, and no later broadcast is written to it; the broadcast
\* is written once to every handle registered when it began, the failing
\* one's failure notwithstanding.
C8_FailedDropped ==
    \A j \in 1..Len(hubLog) :
        \A w \in 1..Len(hubLog[j].writes) :
            ~hubLog[j].writes[w].ok =>
                LET h == hubLog[j].writes[w].to IN
                /\ h \in hubClosed
                /\ h \notin Registered
                /\ \A m \in (j + 1)..Len(hubLog) : HubWrites(m, h) = 0

C8_Step ==
    (hubCmd.ch = "Broadcast" /\ hubCmd'.ch = None) =>
        LET e == hubLog'[Len(hubLog')] IN
        /\ e.n = hubCmd.n
        /\ \A h \in Registered :
               Cardinality({w \in 1..Len(e.writes) : e.writes[w].to = h}) = 1

C8_FailingSubscriber == [] C8_FailedDropped /\ [][C8_Step]_vars

C8_Witness ==
    \E j, m \in 1..Len(hubLog) :
        /\ j < m
        /\ hubLog[m].ch = "Broadcast"
        /\ \E v, w \in 1..Len(hubLog[j].writes) :
            /\ ~hubLog[j].writes[v].ok
            /\ hubLog[j].writes[w].ok
            /\ HubWrites(m, hubLog[j].writes[w].to) = 1
            /\ HubWrites(m, hubLog[j].writes[v].to) = 0

\* C9: a decoded envelope whose targetPeerId is a string with a connection in
\* the map is written, as it was received, to that connection and to no other;
\* an envelope without such a target is written to nobody, and its sender's
\* connection stays open, mapped and reading.
ReadStep(c) ==
    /\ sig[c].pc = "read"
    /\ \/ sig'[c].pc = "write"
       \/ /\ Len(sigLog') = Len(sigLog) + 1
          /\ sigLog'[Len(sigLog')].from = c
RawTarget(raw) ==
    IF raw.object /\ "targetPeerId" \in DOMAIN raw.fields
                  /\ raw.fields.targetPeerId.t = "string"
    THEN raw.fields.targetPeerId.s ELSE None

C9_Lookup ==
    \A c \in DOMAIN sig :
        (ReadStep(c) /\ sig'[c].raw.object) =>
            IF RawTarget(sig'[c].raw) \in DOMAIN sigClients
            THEN /\ sig'[c].pc = "write"
                 /\ sig'[c].tconn = sigClients[RawTarget(sig'[c].raw)]
                 /\ sigLog' = sigLog
            ELSE /\ sig'[c].pc = "read"
                 /\ sigLog' = Append(sigLog,
                        Handled(c, sig'[c].raw, "dropped", 0, NotJSON))
                 /\ sigClients' = sigClients
                 /\ sigClosed' = sigClosed

C9_Written ==
    \A c \in DOMAIN sig :
        (sig[c].pc = "write" /\ sig'[c].pc # "write") =>
            /\ sig'[c].pc = "read"
            /\ Len(sigLog') = Len(sigLog) + 1
            /\ LET e == sigLog'[Len(sigLog')] IN
                /\ e.from = c
                /\ e.to = sig[c].tconn
                /\ e.out = sig[c].raw
            /\ sigClients' = sigClients
            /\ sigClosed' = sigClosed

C9_RoutedUnchanged == [][C9_Lookup /\ C9_Written]_vars

\* C10: a failed read on the connection of peer id p leaves p without a mapping
\* and the connection closed; no closed connection is ever mapped; an envelope
\* addressed to a peer id without a mapping is dropped.
C10_NoClosedMapped == \A p \in DOMAIN sigClients : sigClients[p] \notin sigClosed

C10_Cleanup ==
    \A c \in DOMAIN sig :
        (sig[c].pc = "read" /\ sig'[c].pc = "closed") =>
            /\ sig[c].peer \notin DOMAIN sigClients'
            /\ c \in sigClosed'

C10_Dropped ==
    \A c \in DOMAIN sig :
        (/\ ReadStep(c)
         /\ RawTarget(sig'[c].raw) \in PeerIds \ DOMAIN sigClients)
        => /\ sig'[c].pc = "read"
           /\ sigLog'[Len(sigLog')].outcome = "dropped"
           /\ sigLog'[Len(sigLog')].to = 0

C10_ReadFailureUnmaps ==
    [] C10_NoClosedMapped /\ [][C10_Cleanup /\ C10_Dropped]_vars

C10_Witness ==
    \E c, d \in DOMAIN sig, i \in 1..Len(sigLog) :
        /\ c < d
        /\ sig[c].pc = "closed"
        /\ sig[d].peer # sig[c].peer
        /\ sigLog[i].from = d
        /\ sigLog[i].outcome = "dropped"
        /\ RawTarget(sigLog[i].raw) = sig[c].peer

\* C11: a JoinCall that returns Internal, a transceiver not having been
\* attached, leaves the keys of the session's participant map as they were.
C11_JoinAtomic ==
    [][\A k \in ReqIds :
          (/\ req[k].pc = "jc_lock"
           /\ req'[k].pc = "done"
           /\ req'[k].res = Internal)
          => (DOMAIN callObj'[req[k].sid].Participants
                 = DOMAIN callObj[req[k].sid].Participants)]_vars

\* C12: the JoinCall step that inserts p leaves no occurrence of p in the
\* session's lobby sequence, however often p was added to it, and leaves the
\* other lobby entries in their order.
C12_LobbyCleared ==
    [][\A k \in ReqIds :
          (req[k].pc = "jc_lock" /\ req'[k].pc = "done") =>
              LET Other(id) == id # req[k].who IN
              /\ req[k].who \in DOMAIN callObj'[req[k].sid].Participants
              /\ req[k].who \notin Range(callObj'[req[k].sid].InLobby)
              /\ callObj'[req[k].sid].InLobby
                     = SelectSeq(callObj[req[k].sid].InLobby, Other)]_vars

\* C13: StartRecording on a participant whose recorder is recording returns
\* success and changes neither the recorder nor the tracks of the participant's
\* connection; StopRecording on a participant whose recorder never recorded
\* returns success and changes nothing.
C13_StartAgain ==
    \A a \in AuxIds :
        (/\ aux[a].pc = "rec_lock" /\ aux'[a].pc = "done"
         /\ aux[a].op = "call.StartRecording"
         /\ aux[a].who \in DOMAIN callObj[aux[a].sid].Participants
         /\ callObj[aux[a].sid].Participants[aux[a].who].MediaRecorder.isRecording)
        => /\ aux'[a].res = OK
           /\ callObj' = callObj
           /\ pcs' = pcs

C13_StopUnstarted ==
    \A a \in AuxIds :
        (/\ aux[a].pc = "rec_lock" /\ aux'[a].pc = "done"
         /\ aux[a].op = "call.StopRecording"
         /\ aux[a].who \in DOMAIN callObj[aux[a].sid].Participants
         /\ ~callObj[aux[a].sid].Participants[aux[a].who].MediaRecorder.isRecording
         /\ callObj[aux[a].sid].Participants[aux[a].who].MediaRecorder.closes = 0)
        => /\ aux'[a].res = OK
           /\ callObj' = callObj
           /\ pcs' = pcs

C13_RecordingIdempotent == [][C13_StartAgain /\ C13_StopUnstarted]_vars

\* C14: an AddMessage or ModerateParticipant whose SaveSession fails returns
\* Internal with its mutation made: the message is appended, the participant
\* muted, unmuted or removed; the message and the removal stay in the session
\* ever after, where later operations see them.
C14_AppendStays ==
    \A k \in ReqIds :
        (req[k].pc = "am_append" /\ req'[k].pc = "done") =>
            /\ req'[k].res = Internal
            /\ disk' = disk
            /\ chatObj'[req[k].sid].Messages
                   = Append(chatObj[req[k].sid].Messages, req[k].msg)

C14_ModerationStays ==
    \A k \in ReqIds :
        (req[k].pc = "mp_lock" /\ req'[k].pc = "done" /\ req'[k].res = Internal)
        => LET old == chatObj[req[k].sid].Participants
               new == chatObj'[req[k].sid].Participants
           IN /\ disk' = disk
              /\ req[k].arg = "remove" => DOMAIN new = DOMAIN old \ {req[k].who}
              /\ req[k].arg = "mute" => new[req[k].who].IsMuted
              /\ req[k].arg = "unmute" => ~new[req[k].who].IsMuted

C14_Visible ==
    \A k \in ReqIds :
        /\ Returned(k, "chat.AddMessage", Internal)
               => req[k].msg \in Range(chatObj[req[k].sid].Messages)
        /\ (Returned(k, "chat.ModerateParticipant", Internal)
              /\ req[k].arg = "remove")
               => req[k].who \notin DOMAIN chatObj[req[k].sid].Participants

C14_NoRollback ==
    [] C14_Visible /\ [][C14_AppendStays /\ C14_ModerationStays]_vars

C14_Witness ==
    \E j, k \in ReqIds :
        /\ Returned(j, "chat.AddMessage", Internal)
        /\ Returned(k, "chat.GetChatMessages", OK)
        /\ req[j].msg \in Range(req[k].ret)
        /\ disk = << >>

\* C15: a session is created with one admin; a participant's role changes
\* only in the step of a ModifyParticipantRole that names the participant and
\* whose acting user is a participant with role admin when the step is taken; a
\* ModifyParticipantRole whose acting user is absent or no admin returns
\* Forbidden and changes nothing.
C15_Created ==
    \A sid \in SessionIds :
        (sid \notin DOMAIN chatObj /\ sid \in DOMAIN chatObj') =>
            Cardinality({p \in DOMAIN chatObj'[sid].Participants :
                            chatObj'[sid].Participants[p].Role = "admin"}) = 1

C15_Changed ==
    \A sid \in DOMAIN chatObj :
        \A p \in DOMAIN chatObj[sid].Participants
                     \cap DOMAIN chatObj'[sid].Participants :
            (chatObj'[sid].Participants[p].Role # chatObj[sid].Participants[p].Role)
            => \E k \in ReqIds :
                /\ IsOp(k, "chat.ModifyParticipantRole")
                /\ req[k].pc = "mr_lock" /\ req'[k].pc = "done"
                /\ req'[k].res = OK
                /\ req[k].sid = sid /\ req[k].who = p
                /\ req[k].actor \in DOMAIN chatObj[sid].Participants
                /\ chatObj[sid].Participants[req[k].actor].Role = "admin"

C15_Refused ==
    \A k \in ReqIds :
        (/\ req[k].pc = "mr_lock" /\ req'[k].pc = "done"
         /\ \/ req[k].actor \notin DOMAIN chatObj[req[k].sid].Participants
            \/ chatObj[req[k].sid].Participants[req[k].actor].Role # "admin")
        => (req'[k].res = Forbidden /\ chatObj' = chatObj)

C15_RolesByAdmin == [][C15_Created /\ C15_Changed /\ C15_Refused]_vars

C15_Witness ==
    \E j, k \in ReqIds :
        /\ Returned(j, "chat.ModifyParticipantRole", OK)
        /\ req[j].actor = "u1" /\ req[j].who = "u2" /\ req[j].arg = "admin"
        /\ Returned(k, "chat.ModifyParticipantRole", OK)
        /\ req[k].actor = "u2" /\ req[k].who = "u1" /\ req[k].arg = "user"
        /\ chatObj[req[k].sid].Participants["u1"].Role = "user"

\* C16: a pin toggle (ToggleParticipantPin or PinParticipant) requested by a
\* user who does not hold role admin in the session returns Forbidden and
\* leaves every participant's pinned flag unchanged.
C16_PinByAdminOnly ==
    [][\A k \in ReqIds :
        (/\ req[k].pc = "tp_lock" /\ req'[k].pc = "done"
         /\ \/ req[k].actor \notin DOMAIN chatObj[req[k].sid].Participants
            \/ chatObj[req[k].sid].Participants[req[k].actor].Role # "admin")
        => /\ req'[k].res = Forbidden
           /\ \A p \in DOMAIN chatObj[req[k].sid].Participants :
                  /\ p \in DOMAIN chatObj'[req[k].sid].Participants
                  /\ chatObj'[req[k].sid].Participants[p].IsPinned
                        = chatObj[req[k].sid].Participants[p].IsPinned]_vars

\* C17: ModerateParticipant on a session that is not registered returns
\* NotFound and on a participant that is not in the session returns NotFound,
\* whatever the action is; on a present participant an action other than
\* mute, unmute and remove returns BadRequest and leaves the sessions, the
\* snapshots and the notification hub as they were.
C17_NoSession ==
    \A k \in ReqIds :
        (/\ req[k].op = None /\ req'[k].op = "chat.ModerateParticipant"
         /\ req'[k].sid \notin chatSessions)
        => /\ req'[k].pc = "done" /\ req'[k].res = NotFound
           /\ UNCHANGED <<chatVars, hubVars>>

C17_NoParticipant ==
    \A k \in ReqIds :
        (/\ req[k].pc = "mp_lock" /\ req'[k].pc # "mp_lock"
         /\ req[k].who \notin DOMAIN chatObj[req[k].sid].Participants)
        => /\ req'[k].pc = "done" /\ req'[k].res = NotFound
           /\ UNCHANGED <<chatVars, hubVars>>

C17_InvalidAction ==
    \A k \in ReqIds :
        (/\ req[k].pc = "mp_lock" /\ req'[k].pc # "mp_lock"
         /\ req[k].who \in DOMAIN chatObj[req[k].sid].Participants
         /\ req[k].arg \notin {"mute", "unmute", "remove"})
        => /\ req'[k].pc = "done" /\ req'[k].res = BadRequest
           /\ UNCHANGED <<chatVars, hubVars>>

C17_ModerationRejects ==
    [][C17_NoSession /\ C17_NoParticipant /\ C17_InvalidAction]_vars

C17_Witness ==
    \E j, k \in ReqIds :
        /\ Returned(j, "chat.ModerateParticipant", BadRequest)
        /\ req[j].arg \notin {"mute", "unmute", "remove"}
        /\ req[j].who \in DOMAIN chatObj[req[j].sid].Participants
        /\ Returned(k, "chat.ModerateParticipant", NotFound)
        /\ req[k].arg \notin {"mute", "unmute", "remove"}
        /\ req[k].sid \in chatSessions
        /\ req[k].who \notin DOMAIN chatObj[req[k].sid].Participants

\* C18: a step that is CreateChatSession(creatorID, participants) registers a
\* new session whose participant keys are exactly the creator and the listed
\* participants, in which the creator is admin (also when the creator is
\* listed), every other participant is user, and the message log is empty.
C18_CreateStep ==
    \A creatorID \in CreatorIds, participants \in ParticipantLists :
        CreateChatSession(creatorID, participants) =>
            /\ NextChatId \notin chatSessions
            /\ NextChatId \in chatSessions'
            /\ LET session == chatObj'[NextChatId] IN
                /\ DOMAIN session.Participants
                      = {creatorID} \cup {participants[i] : i \in 1..Len(participants)}
                /\ session.Participants[creatorID].Role = "admin"
                /\ \A p \in DOMAIN session.Participants \ {creatorID} :
                       session.Participants[p].Role = "user"
                /\ session.Messages = << >>

C18_CreatedSession == [][C18_CreateStep]_vars

C18_Witness ==
    \E sid \in chatSessions :
        /\ DOMAIN chatObj[sid].Participants = {"u1", "u2"}
        /\ chatObj[sid].Participants["u1"].Role = "admin"
        /\ chatObj[sid].Participants["u2"].Role = "user"
        /\ chatObj[sid].Messages = << >>
        /\ \A k \in ReqIds : req[k].op = None

\* C19: in the step in which a call TerminateSession deletes the session from
\* the registry and returns success, every peer connection held by a
\* participant of the session's participant map has had Close invoked.
C19_AllClosedAtDelete ==
    [][\A k \in ReqIds :
        (/\ IsOp(k, "call.TerminateSession")
         /\ req[k].pc = "ct_delete" /\ req'[k].pc = "done" /\ req'[k].res = OK)
        => \A p \in DOMAIN callObj[req[k].sid].Participants :
              LET c == callObj[req[k].sid].Participants[p].PeerConnection
              IN c # 0 => pcs[c].closed >= 1]_vars

\* C20: when the expiry task of a session fires after the session was
\* terminated explicitly, the task ends with NotFound, which it keeps to
\* itself: the registry is as it was (no other session is removed), the
\* sessions and their peer connections are untouched and no request's result
\* changes.
C20_ChatLateExpiry ==
    \A sid \in DOMAIN chatExpiry :
        (/\ chatExpiry[sid].pc = "sleep" /\ chatExpiry'[sid].pc # "sleep"
         /\ sid \in chatTermOK)
        => /\ chatExpiry'[sid] = [pc |-> "done", res |-> NotFound]
           /\ chatSessions' = chatSessions
           /\ UNCHANGED <<chatObj, disk, req, aux>>

C20_CallLateExpiry ==
    \A sid \in DOMAIN callExpiry :
        (/\ callExpiry[sid].pc = "sleep" /\ callExpiry'[sid].pc # "sleep"
         /\ sid \in callTermOK)
        => /\ callExpiry'[sid] = [pc |-> "done", res |-> NotFound]
           /\ callSessions' = callSessions
           /\ UNCHANGED <<callObj, pcs, req, aux>>

C20_LateExpiryNoOp == [][C20_ChatLateExpiry /\ C20_CallLateExpiry]_vars

C20_Witness ==
    /\ \E sid \in DOMAIN chatExpiry :
           /\ \E k \in ReqIds : Returned(k, "chat.TerminateSession", OK)
                                   /\ req[k].sid = sid
           /\ chatExpiry[sid] = [pc |-> "done", res |-> NotFound]
           /\ chatSessions # {}
    /\ \E sid \in DOMAIN callExpiry :
           /\ \E k \in ReqIds : Returned(k, "call.TerminateSession", OK)
                                   /\ req[k].sid = sid
           /\ callExpiry[sid] = [pc |-> "done", res |-> NotFound]
           /\ callSessions # {}

\* the ProcessAudioLevel step that feeds the block sample to the detector
Fed(sample) ==
    /\ Len(audioLog'.fed) = Len(audioLog.fed) + 1
    /\ audioLog'.fed[Len(audioLog'.fed)].sample = sample

\* C21: after ProcessAudioLevel is fed a block of all-zero samples,
\* IsSpeaking() is false, whatever blocks were fed before.
C21_SilenceStopsSpeaking ==
    [][Fed(<<0, 0, 0, 0>>) => ~detector'.isSpeaking]_vars

\* C22: after ProcessAudioLevel is fed one block of full-scale samples,
\* IsSpeaking() is true, whatever blocks were fed before.
C22_FullScaleSpeaks ==
    [][Fed(<<255, 127, 0, 128>>) => detector'.isSpeaking]_vars

\* the time spoken according to the blocks fed: the intervals from a block
\* that turned the detector to speaking to the next block that turned it to
\* silent, and the time since the last turn to speaking when none followed
RECURSIVE C23_Spoken(_, _, _, _)
C23_Spoken(i, was, start, total) ==
    IF i > Len(audioLog.fed) THEN total + (IF was THEN clock - start ELSE 0)
    ELSE LET e == audioLog.fed[i] IN
         IF e.isSpeaking /\ ~was THEN C23_Spoken(i + 1, TRUE, e.at, total)
         ELSE IF ~e.isSpeaking /\ was
              THEN C23_Spoken(i + 1, FALSE, start, total + (e.at - start))
              ELSE C23_Spoken(i + 1, was, start, total)

\* C23: what GetSpeakingTime returns is always the total of the completed
\* speaking intervals plus, while speaking, the time since the last turn to
\* speaking; it never decreases from one step to the next, so the results of
\* successive GetSpeakingTime calls are non-decreasing.
C23_SpeakingTime ==
    /\ [](SpeakingTime = C23_Spoken(1, FALSE, 0, 0))
    /\ [][/\ SpeakingTime' >= SpeakingTime
          /\ (audioLog.got >= 0 /\ audioLog'.got # audioLog.got)
                => audioLog'.got >= audioLog.got]_vars

C23_Witness ==
    /\ detector.isSpeaking
    /\ detector.speakingTime >= 2
    /\ clock > detector.lastUpdate
    /\ audioLog.got = SpeakingTime
    /\ \E i \in 1..Len(audioLog.fed) :
           ~audioLog.fed[i].isSpeaking /\ audioLog.fed[i].sample = <<0, 0, 0, 0>>

\* C24: in every reachable state every participant of a call session has a
\* network quality within the scale 1..5.
C24_QualityInScale ==
    \A sid \in DOMAIN callObj :
        \A p \in DOMAIN callObj[sid].Participants :
            callObj[sid].Participants[p].NetworkQuality \in 1..5

\* C25: the step of AddToLobby(session, p) that returns success appends p at
\* the end of the session's lobby sequence and changes nothing else: the
\* participant map, the recording flag and every other field of the session,
\* the other sessions, the registry and the peer connections are unchanged.
C25_LobbyAppendOnly ==
    [][\A a \in AuxIds :
        (/\ aux[a].op = "call.AddToLobby"
         /\ aux[a].pc = "al_lock" /\ aux'[a].pc = "done")
        => /\ aux'[a].res = OK
           /\ callObj'[aux[a].sid].InLobby
                 = Append(callObj[aux[a].sid].InLobby, aux[a].who)
           /\ callObj' = [callObj EXCEPT
                  ![aux[a].sid].InLobby = callObj'[aux[a].sid].InLobby]
           /\ UNCHANGED <<callSessions, pcs, callExpiry>>]_vars

C25_Witness ==
    \E a \in AuxIds :
        /\ aux[a].op = "call.AddToLobby" /\ aux[a].pc = "done" /\ aux[a].res = OK
        /\ aux[a].who \notin DOMAIN callObj[aux[a].sid].Participants
        /\ Len(callObj[aux[a].sid].InLobby) = 2
        /\ callObj[aux[a].sid].InLobby[2] = aux[a].who
        /\ callObj[aux[a].sid].InLobby[1] # aux[a].who

\* C26: the step of ToggleRecording flips the session's IsRecording flag and
\* changes nothing else of any session (no participant's recorder, no peer
\* connection), so two toggles restore the flag; the steps of StartRecording
\* and StopRecording leave the IsRecording flag of every session as it was.
C26_ToggleStep ==
    \A a \in AuxIds :
        (/\ aux[a].op = "call.ToggleRecording"
         /\ aux[a].pc = "rec_lock" /\ aux'[a].pc = "done")
        => /\ aux'[a].res = OK
           /\ callObj' = [callObj EXCEPT
                  ![aux[a].sid].IsRecording = ~callObj[aux[a].sid].IsRecording]
           /\ pcs' = pcs

C26_RecorderStep ==
    \A a \in AuxIds :
        (/\ aux[a].op \in {"call.StartRecording", "call.StopRecording"}
         /\ aux[a].pc = "rec_lock" /\ aux'[a].pc = "done")
        => \A sid \in DOMAIN callObj :
               callObj'[sid].IsRecording = callObj[sid].IsRecording

C26_FlagAndRecorders == [][C26_ToggleStep /\ C26_RecorderStep]_vars

C26_Witness ==
    \E a, b \in AuxIds :
        /\ aux[a].op = "call.StartRecording" /\ aux[a].pc = "done" /\ aux[a].res = OK
        /\ aux[b].op = "call.ToggleRecording" /\ aux[b].pc = "done"
        /\ aux[a].sid = aux[b].sid
        /\ callObj[aux[a].sid].Participants[aux[a].who].MediaRecorder.isRecording

\* C27: the hub holds at most one subscriber per remote endpoint: the entry of
\* an endpoint is a handle of that endpoint; processing Register(h) makes h the
\* entry of its endpoint, replacing the handle that was there, and leaves the
\* other entries alone; every write of a broadcast goes to the handle
\* registered last for its endpoint, at most one write per endpoint, and the
\* handle registered last receives exactly one write as long as no
\* Unregister and no failed write has removed the entry of its endpoint.
C27_OneEntry ==
    \A a \in DOMAIN hubClients : RemoteAddr(hubClients[a]) = a

C27_Overwrite ==
    (hubCmd.ch = "Register" /\ hubCmd'.ch = None) =>
        /\ hubClients'[RemoteAddr(hubCmd.h)] = hubCmd.h
        /\ DOMAIN hubClients' = DOMAIN hubClients \cup {RemoteAddr(hubCmd.h)}
        /\ \A a \in DOMAIN hubClients \ {RemoteAddr(hubCmd.h)} :
               hubClients'[a] = hubClients[a]

C27_Replaced(i, j) ==
    /\ i < j
    /\ hubLog[i].ch = "Register" /\ hubLog[j].ch = "Register"
    /\ RemoteAddr(hubLog[i].h) = RemoteAddr(hubLog[j].h)

C27_EntryRemoved(m, a) ==
    \/ hubLog[m].ch = "Unregister" /\ RemoteAddr(hubLog[m].h) = a
    \/ \E w \in 1..Len(hubLog[m].writes) :
           RemoteAddr(hubLog[m].writes[w].to) = a /\ ~hubLog[m].writes[w].ok

C27_Writes ==
    \A j \in 1..Len(hubLog) :
        /\ \A w \in 1..Len(hubLog[j].writes) :
               \A i, r \in 1..(j - 1) :
                   C27_Replaced(i, r) => hubLog[j].writes[w].to # hubLog[i].h
        /\ \A w1, w2 \in 1..Len(hubLog[j].writes) :
               RemoteAddr(hubLog[j].writes[w1].to)
                   = RemoteAddr(hubLog[j].writes[w2].to) => w1 = w2

C27_NewestReceives ==
    \A i, j \in 1..Len(hubLog) :
        (/\ i < j
         /\ hubLog[i].ch = "Register" /\ hubLog[j].ch = "Broadcast"
         /\ \A m \in (i + 1)..(j - 1) :
               /\ ~C27_Replaced(i, m)
               /\ ~C27_EntryRemoved(m, RemoteAddr(hubLog[i].h)))
        => HubWrites(j, hubLog[i].h) = 1

C28_Handed(n) ==
    Cardinality({i \in 1..Len(hubLog) :
                    hubLog[i].ch = "Broadcast" /\ hubLog[i].n = n})
    + (IF hubCmd.ch = "Broadcast" /\ hubCmd.n = n THEN 1 ELSE 0)

\* the calls that have returned after appending their message, respectively
\* after applying their moderation action
C28_Appended ==
    {k \in ReqIds :
        /\ IsOp(k, "chat.AddMessage") /\ Done(k)
        /\ req[k].sid \in DOMAIN chatObj
        /\ \E i \in 1..Len(chatObj[req[k].sid].Messages) :
               chatObj[req[k].sid].Messages[i] = req[k].msg}

C28_Moderated ==
    {k \in ReqIds :
        /\ IsOp(k, "chat.ModerateParticipant") /\ Done(k)
        /\ req[k].res \in {OK, Internal}}

\* C28: when the calls have returned, every message that an AddMessage
\* appended has exactly one message notification carrying it handed to the
\* hub, every moderation action that a ModerateParticipant applied has one
\* moderation notification, and nothing else was handed to the hub (the calls
\* that returned NotFound, Forbidden or BadRequest handed over none).
C28_EveryChangeNotified ==
    /\ \A k \in C28_Appended :
           C28_Handed(MessageNotification(req[k].sid, req[k].msg)) = 1
    /\ \A k \in C28_Moderated :
           C28_Handed(ModerationNotification(req[k].sid, req[k].who, req[k].arg))
               = Cardinality({j \in C28_Moderated :
                    /\ req[j].sid = req[k].sid /\ req[j].who = req[k].who
                    /\ req[j].arg = req[k].arg})
    /\ (\A k \in ReqIds : Done(k)) =>
           Cardinality({i \in 1..Len(hubLog) : hubLog[i].ch = "Broadcast"})
           + (IF hubCmd.ch = "Broadcast" THEN 1 ELSE 0)
               = Cardinality(C28_Appended) + Cardinality(C28_Moderated)

\* C29: the step of AddAttachment / AddReaction on a registered session
\* returns NotFound and changes no session when no message has the given id;
\* otherwise it returns success, the item is appended at the end of the
\* attachment (reaction) sequence of the message with that id, and the number
\* and order of the session's messages, every other field of that message,
\* every other message, the participants and the other sessions are unchanged.
C29_ItemStep ==
    \A a \in AuxIds :
        (/\ aux[a].op \in {"chat.AddAttachment", "chat.AddReaction"}
         /\ aux[a].pc = "ai_lock" /\ aux'[a].pc = "done")
        => LET sid == aux[a].sid
               old == chatObj[sid].Messages
               new == chatObj'[sid].Messages
               hits == {i \in 1..Len(old) : old[i].ID = aux[a].arg[1]}
           IN /\ \A s \in DOMAIN chatObj \ {sid} : chatObj'[s] = chatObj[s]
              /\ chatObj'[sid].Participants = chatObj[sid].Participants
              /\ UNCHANGED <<chatSessions, disk, hubVars>>
              /\ IF hits = {}
                 THEN aux'[a].res = NotFound /\ new = old
                 ELSE /\ aux'[a].res = OK
                      /\ Len(new) = Len(old)
                      /\ Cardinality(hits) = 1
                      /\ \A i \in 1..Len(old) :
                            IF i \in hits
                            THEN /\ new[i].ID = old[i].ID
                                 /\ new[i].SenderID = old[i].SenderID
                                 /\ new[i].Type = old[i].Type
                                 /\ IF aux[a].op = "chat.AddAttachment"
                                    THEN /\ new[i].Attachments
                                             = Append(old[i].Attachments, aux[a].arg[2])
                                         /\ new[i].Reactions = old[i].Reactions
                                    ELSE /\ new[i].Reactions
                                             = Append(old[i].Reactions, aux[a].arg[2])
                                         /\ new[i].Attachments = old[i].Attachments
                            ELSE new[i] = old[i]

C29_ItemAppended == [][C29_ItemStep]_vars

C29_Witness ==
    \E sid \in chatSessions :
        /\ Len(chatObj[sid].Messages) = 2
        /\ chatObj[sid].Messages[2].Attachments = <<"i2", "i1">>
        /\ chatObj[sid].Messages[2].Reactions = << >>
        /\ chatObj[sid].Messages[1].Attachments = << >>
        /\ chatObj[sid].Messages[1].Reactions = << >>

\* C30: an id enters the participant map of a call session, the creator
\* aside, only when AddToLobby has been invoked on it for that session.
C30_AdmittedFromLobby ==
    [][\A sid \in DOMAIN callObj :
        \A p \in DOMAIN callObj'[sid].Participants :
            (p \notin DOMAIN callObj[sid].Participants
             /\ p # callObj[sid].CreatorID)
            => \E a \in AuxIds :
                  /\ aux[a].op = "call.AddToLobby"
                  /\ aux[a].sid = sid /\ aux[a].who = p]_vars

\* C31: the two-level locking cannot deadlock.  cm.mu is never held across an
\* acquisition of session.mu, so whenever a facade operation or an expiry task
\* is under way some step of an operation, of an expiry task or of the hub's
\* loop can be taken; and with the goroutines scheduled, every started facade
\* operation returns, although AddMessage and ModerateParticipant send on the
\* hub's unbuffered channel while they hold session.mu.
C31_Underway ==
    \/ \E k \in ReqIds : Started(k) /\ ~Done(k)
    \/ \E sid \in DOMAIN callExpiry : callExpiry[sid].pc \in {"ct_close", "ct_delete"}

C31_NotStuck ==
    C31_Underway =>
        ENABLED (\/ HubRun
                 \/ \E k \in ReqIds : Continue(k)
                 \/ \E sid \in SessionIds : CallExpireClose(sid) \/ CallExpireDelete(sid))

C31_DeadlockFree ==
    /\ [] C31_NotStuck
    /\ \A k \in ReqIds : Started(k) ~> Done(k)

\* a sender is blocked on the hub's channel, which still holds the notification
\* of the request before it, while it holds session.mu
C31_Witness ==
    \E k, j \in ReqIds :
        /\ req[k].pc \in {"am_notify", "mp_notify"}
        /\ chatObj[req[k].sid].mu = k
        /\ ~HubIdle
        /\ ~ENABLED Continue(k)
        /\ Returned(j, "chat.AddMessage", OK)

\* C32: every access to a session's participants, messages or flags is made
\* under that session's own lock: a step that reads the session's messages for
\* GetChatMessages is taken only when session.mu is not held by another
\* operation, so that the reader can be the one holding it.
C32_ReadStep(k) ==
    /\ req[k].pc = "new"
    /\ req'[k].op = "chat.GetChatMessages"
    /\ req'[k].res = OK

C32_AccessUnderLock ==
    [][\A k \in ReqIds : C32_ReadStep(k) => ChatLockFree(req'[k].sid)]_vars

\* C33: when a peer id is registered again while an older handle for it is
\* still being read, the newest handle keeps the mapping: as long as the handle
\* registered last for a peer id has not failed, the router's map sends that
\* peer id to it, whatever became of the older handles (no message undecodable
\* here: the handles end by read failures only).
C33_Newest(c) == \A d \in DOMAIN sig : sig[d].peer = sig[c].peer => d <= c

C33_NewestHandleMapped ==
    (\A d \in DOMAIN sig : sig[d].pc # "panicked") =>
        \A c \in DOMAIN sig :
            C33_Newest(c) /\ c \notin sigClosed =>
                /\ sig[c].peer \in DOMAIN sigClients
                /\ sigClients[sig[c].peer] = c

\* C34: when a call TerminateSession (of a request or of the expiry task)
\* returns success, every peer connection that a JoinCall has stored in that
\* session so far has had Close invoked, the connection of a participant who
\* joined again and the connection of a JoinCall running beside the
\* termination included.
C34_Attached(sid) ==
    {k \in ReqIds : /\ IsOp(k, "call.JoinCall") /\ Done(k)
                    /\ req[k].sid = sid /\ req[k].res \in {OK, Internal}}

C34_TerminateReturns(sid) ==
    \/ \E k \in ReqIds : /\ IsOp(k, "call.TerminateSession") /\ req[k].sid = sid
                         /\ req[k].pc = "ct_delete" /\ req'[k].pc = "done"
    \/ /\ sid \in DOMAIN callExpiry
       /\ callExpiry[sid].pc = "ct_delete" /\ callExpiry'[sid].pc = "done"

C34_NoConnectionLeaked ==
    [][\A sid \in SessionIds :
          C34_TerminateReturns(sid) =>
              \A k \in C34_Attached(sid) : pcs'[k].closed >= 1]_vars

\* C35: no session is changed after its termination: in the step in which an
\* AddMessage appends its message, a ModerateParticipant applies its action or
\* a JoinCall stores its participant, for a call that goes on to return
\* success, the session is still in its registry.
C35_ChatMutation(k) ==
    \/ IsOp(k, "chat.AddMessage") /\ req[k].pc = "am_append" /\ req'[k].pc = "am_notify"
    \/ IsOp(k, "chat.ModerateParticipant") /\ req[k].pc = "mp_lock" /\ req'[k].pc = "mp_notify"

C35_CallMutation(k) ==
    IsOp(k, "call.JoinCall") /\ req[k].pc = "jc_lock" /\ req'[k].res = OK

C35_NoMutationAfterTermination ==
    [][\A k \in ReqIds :
          /\ C35_ChatMutation(k) => ChatExists(req[k].sid)
          /\ C35_CallMutation(k) => CallExists(req[k].sid)]_vars

\* C36: whatever StartRecording and StopRecording calls are made on a
\* participant, one after the other (start, stop, start, stop), a StopRecording
\* on a participant of the session returns success and does not panic, and the
\* recorder's stop channel is closed at most once: never when it is closed
\* already.
C36_StopReturns ==
    \A a \in AuxIds :
        (/\ aux[a].op = "call.StopRecording" /\ aux[a].pc = "rec_lock"
         /\ aux'[a].pc = "done"
         /\ aux[a].who \in DOMAIN callObj[aux[a].sid].Participants)
        => aux'[a].res = OK

C36_ClosedOnce ==
    \A sid \in DOMAIN callObj : \A p \in DOMAIN callObj[sid].Participants :
        callObj[sid].Participants[p].MediaRecorder.closes <= 1

C36_StopNeverCrashes == [] C36_ClosedOnce /\ [][C36_StopReturns]_vars

\* C37: a transport handle has at most one writer at a time: the router never
\* has two forwarding writes to the same target connection under way, also
\* when two peers address the same target at once.  (The hub's writes are made
\* by its loop alone, one iteration being one step of HubRun.)
C37_Writers(t) == {c \in DOMAIN sig : sig[c].pc = "write" /\ sig[c].tconn = t}

C37_SingleWriter == \A t \in DOMAIN sig : Cardinality(C37_Writers(t)) <= 1

\* C38: notifications follow the messages.  The message notifications written
\* to a subscriber come in the order of the hub's loop, which is the same for
\* every subscriber; those of one chat session are written to it in the order
\* in which their messages stand in the session's message sequence, none of
\* them twice, and the notification the hub holds comes after all it has
\* written.
C38_Position(n) ==
    CHOOSE i \in 1..Len(chatObj[n.SessionID].Messages) :
        chatObj[n.SessionID].Messages[i].ID = n.Data.ID

C38_Received(h) ==
    {i \in 1..Len(hubLog) :
        /\ hubLog[i].ch = "Broadcast"
        /\ hubLog[i].n.Type = "message"
        /\ \E w \in 1..Len(hubLog[i].writes) :
               hubLog[i].writes[w].to = h /\ hubLog[i].writes[w].ok}

C38_InMessageOrder(h) ==
    \A i, j \in C38_Received(h) :
        (i < j /\ hubLog[i].n.SessionID = hubLog[j].n.SessionID)
        => C38_Position(hubLog[i].n) < C38_Position(hubLog[j].n)

C38_PendingLast(h) ==
    \A i \in C38_Received(h) :
        (hubCmd.ch = "Broadcast" /\ hubCmd.n.SessionID = hubLog[i].n.SessionID)
        => C38_Position(hubLog[i].n) < C38_Position(hubCmd.n)

C38_NotificationOrder ==
    \A h \in DOMAIN ws : C38_InMessageOrder(h) /\ C38_PendingLast(h)

\* a subscriber has received the notifications of two messages of one session
C38_Witness ==
    \E h \in DOMAIN ws : \E i, j \in C38_Received(h) :
        /\ i < j
        /\ hubLog[i].n.SessionID = hubLog[j].n.SessionID
        /\ ws[h].pc = "registered"

\* C39: an inbound message that is no JSON object is skipped: in the step that
\* reads it the sender's connection stays open, registered and in its read
\* loop, no entry of the router's map changes, and nothing is written.
C39_Undecodable(c) ==
    /\ sig[c].pc = "read"
    /\ Len(sigLog') = Len(sigLog) + 1
    /\ sigLog'[Len(sigLog')].from = c
    /\ ~Decode(sigLog'[Len(sigLog')].raw).ok

C39_UndecodableSkipped ==
    [][\A c \in DOMAIN sig :
          C39_Undecodable(c) =>
              /\ sig'[c].pc = "read"
              /\ c \notin sigClosed'
              /\ sigClients' = sigClients
              /\ sigLog'[Len(sigLog')].outcome = "dropped"]_vars

\* C40: the PeerManager holds at most one peer connection for a peer id.
\* CreatePeerConnection for an id that has a connection answers Conflict and
\* leaves the map as it is; ClosePeerConnection and AddICECandidate for an id
\* without one answer NotFound; after a ClosePeerConnection that succeeded the
\* id has no connection, GetPeerConnection answers NotFound for it, and a
\* CreatePeerConnection for it is not refused as a duplicate.
C40_OnePerId ==
    \A n, m \in 1..Len(peerConns) :
        (/\ n # m /\ peerConns[n].peer = peerConns[m].peer
         /\ ~peerConns[n].closed)
        => peerConns[m].closed

C40_AfterClose ==
    (peerRes.op = "ClosePeerConnection" /\ peerRes.res = OK)
    => peerRes.id \notin DOMAIN peerConnections

C40_Create(p) ==
    CreatePeerConnection(p) =>
        IF p \in DOMAIN peerConnections
        THEN peerRes'.res = Conflict /\ UNCHANGED <<peerConnections, peerConns>>
        ELSE peerRes'.res # Conflict

C40_Unknown(p) ==
    (/\ ClosePeerConnection(p) \/ AddICECandidate(p) \/ GetPeerConnection(p)
     /\ p \notin DOMAIN peerConnections)
    => peerRes'.res = NotFound /\ UNCHANGED <<peerConnections, peerConns>>

C40_PeerManager ==
    /\ [] (C40_OnePerId /\ C40_AfterClose)
    /\ [][\A p \in PeerIds : C40_Create(p) /\ C40_Unknown(p)]_vars

\* a peer id is created again after its connection was closed, and a further
\* creation has been refused
C40_Witness ==
    \E n, m \in 1..Len(peerConns) :
        /\ n < m
        /\ peerConns[n].peer = peerConns[m].peer
        /\ peerConns[n].closed
        /\ peerConns[m].peer \in DOMAIN peerConnections
        /\ peerConnections[peerConns[m].peer] = m
        /\ peerRes = Answer("CreatePeerConnection", peerConns[m].peer, Conflict)

====
